---- MODULE Spec2Model ----
(***************************************************************************)
(* Model of xrootdlib's XrdXrootdMon stream layer:                         *)
(*   - PSeq, the wrap-aware packet sequence comparator                     *)
(*     (streams/XrdXrootdMon/utility.py),                                  *)
(*   - stream_packets, the reordering packet generator                     *)
(*     (streams/XrdXrootdMon/__init__.py),                                 *)
(*   - MapInfoStore and its MapInfoStoreCleaner thread                     *)
(*     (streams/XrdXrootdMon/map.py),                                      *)
(*   - StreamMapper and the packet digesters it dispatches to              *)
(*     (streams/XrdXrootdMon/__init__.py, fstat.py, trace.py, redir.py),   *)
(*   - packet_from_buffer, the byte-level packet reader                    *)
(*     (streams/XrdXrootdMon/utility.py, structs/XrdXrootdMon/__init__.py),*)
(*   - Fstat.from_record and Burr.from_record, the record-body decoders    *)
(*     (structs/XrdXrootdMon/__init__.py),                                 *)
(*   - UserId.from_buffer, the parser of the userid of a map record        *)
(*     (structs/XrdXrootdMon/map.py),                                      *)
(*   - the decoding loop of Fstat.from_record over the bytes of a body     *)
(*     (structs/XrdXrootdMon/__init__.py, fstat.py).                       *)
(* Eight specifications share the variables; each one pins the variables   *)
(* of the other parts to their initial values.                             *)
(***************************************************************************)
EXTENDS Integers, Sequences, FiniteSets, TLC

VARIABLES
    \* ---- PSeq comparisons (SpecPSeq)
    cmp_a, cmp_b, cmp_c,    \* the three sequence numbers under comparison
    cmp_res,                \* results of the comparisons, once they are made
    \* ---- stream_packets (SpecStream)
    sort_window,            \* parameter sort_window
    packet_source,          \* the packets held by the byte source, arrival order
    read_pos,               \* number of packets already read from the source
    buffer,                 \* List[Tuple[Packet, PSeq]]
    emitted,                \* packets yielded so far, in order
    gen_pc,                 \* where the generator is suspended
    raised,                 \* exception that left the generator, or "none"
    \* ---- MapInfoStore / MapInfoStoreCleaner (SpecStore)
    server_info,            \* MapInfoStore._server_info
    user_info,              \* MapInfoStore._user_info
    access_info,            \* MapInfoStore._access_info
    server_lifetime,        \* MapInfoStore._server_lifetime
    deletion_queue,         \* the list MapInfoStoreCleaner._deletion_queue names
    swapped_queue,          \* the list the local name deletion_queue of run() names
    cleaner_pc,             \* position of the cleaner thread inside run()
    cleaner_idx,            \* list iterator index of the for loop in run()
    terminate_at,           \* local terminate_at of run()
    now,                    \* time.time(), in whole clock readings
    pipe_pc,                \* position of the pipeline thread inside add_deletion
    pipe_item,              \* deletion the pipeline thread is about to append
    pipe_list,              \* which list object the pipeline thread has loaded
    freed_at,               \* history: clock reading of the last free of each id
    frees,                  \* history: number of free_user/free_access calls made
    fresh,                  \* history: ids installed since they were last freed
    \* ---- StreamMapper (SpecMapper)
    mapper_packet,          \* the packet last handed to StreamMapper.chainlet_send
    mapper_out,             \* the elements StreamMapper produced for that packet
    mapper_raised,          \* exception that left StreamMapper, or "none"
    mapper_count,           \* number of packets handed to StreamMapper so far
    \* ---- packet_from_buffer (SpecReader)
    byte_written,           \* the packets written to the byte source, each as bytes
    byte_source,            \* the bytes the source holds, from its first byte on
    byte_pos,               \* position of the source: the bytes read so far
    reader_result,          \* what the last call of packet_from_buffer returned or raised
    reader_count,           \* number of calls of packet_from_buffer made
    \* ---- Fstat.from_record / Burr.from_record (SpecRecords)
    record_body,            \* record code and decoded records of the body handed over
    record_result,          \* what from_record returned or raised
    \* ---- UserId.from_buffer (SpecUserId)
    userid_buffer,          \* the userid bytes handed over, one character each
    userid_result,          \* what UserId.from_buffer returned or raised
    \* ---- the decoding loop of Fstat.from_record over bytes (SpecFstatBody)
    body_bytes,             \* record_data, the bytes of the record body
    body_pos,               \* offset of record_view inside record_data
    body_records,           \* types of the records decoded so far
    body_result             \* how the loop ended, or that it is still running

pseq_vars   == <<cmp_a, cmp_b, cmp_c, cmp_res>>
stream_vars == <<sort_window, packet_source, read_pos, buffer, emitted, gen_pc, raised>>
table_vars  == <<server_info, user_info, access_info, server_lifetime>>
store_vars  == <<server_info, user_info, access_info, server_lifetime,
                 deletion_queue, swapped_queue, cleaner_pc, cleaner_idx,
                 terminate_at, now, pipe_pc, pipe_item, pipe_list, freed_at, frees, fresh>>
mapper_vars == <<mapper_packet, mapper_out, mapper_raised, mapper_count>>
reader_vars == <<byte_written, byte_source, byte_pos, reader_result, reader_count>>
record_vars == <<record_body, record_result>>
userid_vars == <<userid_buffer, userid_result>>
body_vars   == <<body_bytes, body_pos, body_records, body_result>>
decode_vars == <<reader_vars, record_vars, userid_vars, body_vars>>
vars        == <<pseq_vars, stream_vars, store_vars, mapper_vars, decode_vars>>

-----------------------------------------------------------------------------
(* Bounds of the model *)

\* longest source for which every arrival order is enumerated
MaxLen == 4

-----------------------------------------------------------------------------
(* PSeq: utility.py *)

\* pseq is an Integer from 0 to 255 (PSeq.__init__)
PSeqRange == 256
PSeqValues == 0 .. (PSeqRange - 1)

\* thresholds of the comparator
LowQuarter == 64
HighQuarter == 191

\* PSeq.__eq__
PSeqEq(self, other) == self = other

\* a comparator whose wrap test misses the threshold value itself
PSeqGtStrict(self, other) ==
    IF self < LowQuarter /\ other > HighQuarter THEN TRUE
    ELSE IF other < LowQuarter /\ self > HighQuarter THEN FALSE
    ELSE self > other

\* PSeq.__gt__
PSeqGt(self, other) ==
    IF self < LowQuarter /\ other >= HighQuarter THEN TRUE
    ELSE IF other < LowQuarter /\ self >= HighQuarter THEN FALSE
    ELSE self > other

\* a comparator that ignores the wrap from 255 to 0
PSeqLtNoWrap(self, other) == self < other

\* PSeq.__lt__
PSeqLt(self, other) ==
    IF other < LowQuarter /\ self >= HighQuarter THEN TRUE
    ELSE IF self >= LowQuarter \/ other < HighQuarter THEN self < other
    ELSE FALSE

\* PSeq.__ge__ and PSeq.__le__
PSeqGe(self, other) == PSeqEq(self, other) \/ PSeqGt(self, other)
PSeqLe(self, other) == PSeqEq(self, other) \/ PSeqLt(self, other)

-----------------------------------------------------------------------------
(* list.sort as stream_packets uses it: lists shorter than 64 elements are  *)
(* sorted by one natural run followed by binary insertion.                  *)

Reverse(s) == [i \in 1 .. Len(s) |-> s[Len(s) + 1 - i]]

\* key=lambda packet_pseq: packet_pseq[1]
SortKey(packet_pseq) == packet_pseq[2]

IsLt(x, y) == PSeqLt(SortKey(x), SortKey(y))

\* count_run: length of the run starting the list; desc tells a strictly
\* descending run from a non-descending one
RECURSIVE RunLength(_, _, _)
RunLength(s, n, desc) ==
    IF n < Len(s) /\ (IsLt(s[n + 1], s[n]) = desc)
    THEN RunLength(s, n + 1, desc)
    ELSE n

\* binarysort: position at which pivot enters the sorted prefix
RECURSIVE BinarySearch(_, _, _, _)
BinarySearch(s, pivot, l, r) ==
    IF l < r
    THEN LET p == l + ((r - l) \div 2)
         IN  IF IsLt(pivot, s[p])
             THEN BinarySearch(s, pivot, l, p)
             ELSE BinarySearch(s, pivot, p + 1, r)
    ELSE l

\* binarysort: s[1..k] is sorted, insert s[k+1], s[k+2], ...
RECURSIVE BinarySort(_, _)
BinarySort(s, k) ==
    IF k >= Len(s) THEN s
    ELSE LET pivot == s[k + 1]
             l == BinarySearch(s, pivot, 1, k + 1)
             t == SubSeq(s, 1, l - 1) \o <<pivot>> \o SubSeq(s, l, k)
                  \o SubSeq(s, k + 2, Len(s))
         IN  BinarySort(t, k + 1)

\* list.sort() in ascending order
ListSort(s) ==
    IF Len(s) < 2 THEN s
    ELSE LET desc == IsLt(s[2], s[1])
             n == RunLength(s, 2, desc)
             run == IF desc
                    THEN Reverse(SubSeq(s, 1, n)) \o SubSeq(s, n + 1, Len(s))
                    ELSE s
         IN  BinarySort(run, n)

\* a sort that leaves the smallest sequence first instead of last
ListSortAscending(s) == ListSort(s)

\* buffer.sort(key=..., reverse=True): reverse, sort, reverse
ListSortReverse(s) == Reverse(ListSort(Reverse(s)))

-----------------------------------------------------------------------------
(* Values the variables of a part hold while another part is exercised *)

PSeqIdle ==
    /\ cmp_a = 0 /\ cmp_b = 0 /\ cmp_c = 0
    /\ cmp_res = [done |-> FALSE]

StreamIdle ==
    /\ sort_window = 0
    /\ packet_source = <<>>
    /\ read_pos = 0
    /\ buffer = <<>>
    /\ emitted = <<>>
    /\ gen_pc = "idle"
    /\ raised = "none"

\* no packet has been handed to the mapper
NoPacket == [code |-> "none"]

MapperIdle ==
    /\ mapper_packet = NoPacket
    /\ mapper_out = <<>>
    /\ mapper_raised = "none"
    /\ mapper_count = 0

\* packet_from_buffer has not been called
NoResult == [kind |-> "none"]

ReaderIdle ==
    /\ byte_written = <<>>
    /\ byte_source = <<>>
    /\ byte_pos = 0
    /\ reader_result = NoResult
    /\ reader_count = 0

RecordsIdle ==
    /\ record_body = [code |-> "none", records |-> <<>>]
    /\ record_result = NoResult

UserIdIdle ==
    /\ userid_buffer = <<>>
    /\ userid_result = NoResult

BodyIdle ==
    /\ body_bytes = <<>>
    /\ body_pos = 0
    /\ body_records = <<>>
    /\ body_result = NoResult

DecodeIdle == ReaderIdle /\ RecordsIdle /\ UserIdIdle /\ BodyIdle

-----------------------------------------------------------------------------
(* SpecPSeq: the comparison operators applied to sequence numbers *)

\* third operands tried against every pair: the ends of the range and the
\* two sides of each threshold of the comparator
PSeqProbe == {0, LowQuarter - 1, LowQuarter, HighQuarter - 1, HighQuarter,
              PSeqRange - 1}

\* evaluate the rich comparisons of PSeq(cmp_a), PSeq(cmp_b) and PSeq(c)
ComparePSeq(c) ==
    /\ ~cmp_res.done
    /\ cmp_c' = c
    /\ cmp_res' = [done |-> TRUE,
                   lt_ab |-> PSeqLt(cmp_a, cmp_b),
                   lt_ba |-> PSeqLt(cmp_b, cmp_a),
                   gt_ab |-> PSeqGt(cmp_a, cmp_b),
                   gt_ba |-> PSeqGt(cmp_b, cmp_a),
                   eq_ab |-> PSeqEq(cmp_a, cmp_b),
                   lt_bc |-> PSeqLt(cmp_b, c),
                   lt_ac |-> PSeqLt(cmp_a, c)]
    /\ UNCHANGED <<cmp_a, cmp_b, stream_vars, store_vars, mapper_vars, decode_vars>>

-----------------------------------------------------------------------------
(* stream_packets: __init__.py *)

\* sort_window: int=8
DefaultSortWindow == 8

\* exclusive upper limit of sort_window
SortWindowLimit == 128

\* a packet: its header's pseq, and its position in the order the sender
\* produced the packets (standing for the packet's content)
Packet(id, s0) == [id |-> id, pseq |-> (s0 + id) % PSeqRange]

\* (packet, PSeq(packet.header.pseq))
BufferEntry(packet) == <<packet, packet.pseq>>

\* packet_from_buffer: PacketBufferExhausted when the source has no packet left
SourceExhausted(pos) == pos >= Len(packet_source)

\* the entries read by the pre-fill loop, which stops after sort_window
\* packets or at the exhaustion of the source
PreFill == [i \in 1 .. (IF Len(packet_source) < sort_window
                        THEN Len(packet_source) ELSE sort_window)
              |-> BufferEntry(packet_source[i])]

\* while buffer: yield buffer.pop(-1)[0]  -- one round of the drain loop,
\* entered from the except clause or resumed after a yield
DrainStep(buf) ==
    IF buf /= <<>>
    THEN /\ emitted' = Append(emitted, buf[Len(buf)][1])
         /\ buffer' = SubSeq(buf, 1, Len(buf) - 1)
         /\ gen_pc' = "draining"
    ELSE /\ emitted' = emitted
         /\ buffer' = buf
         /\ gen_pc' = "done"

\* buffer.sort(...); yield buffer.pop(-1)[0]
SortAndYield(buf) ==
    LET sorted == ListSortReverse(buf)
    IN  /\ emitted' = Append(emitted, sorted[Len(sorted)][1])
        /\ buffer' = SubSeq(sorted, 1, Len(sorted) - 1)
        /\ gen_pc' = "yielded"

\* a start that asserts only that sort_window is not empty
stream_start_unbounded ==
    /\ gen_pc = "start"
    /\ IF ~(sort_window > 0)
       THEN /\ raised' = "AssertionError"
            /\ gen_pc' = "raised"
            /\ UNCHANGED <<read_pos, buffer, emitted>>
       ELSE IF Len(packet_source) < sort_window
       THEN \* packet_from_buffer raises outside of the try block
            /\ raised' = "PacketBufferExhausted"
            /\ gen_pc' = "raised"
            /\ read_pos' = Len(packet_source)
            /\ buffer' = PreFill
            /\ UNCHANGED emitted
       ELSE /\ read_pos' = sort_window
            /\ SortAndYield(PreFill)
            /\ UNCHANGED raised
    /\ UNCHANGED <<sort_window, packet_source, pseq_vars, store_vars, mapper_vars, decode_vars>>

\* first next() on the generator: the assertions, the pre-fill loop and the
\* first round of the sorting loop
stream_start ==
    /\ gen_pc = "start"
    /\ IF ~(sort_window > 0) \/ ~(sort_window < SortWindowLimit)
       THEN /\ raised' = "AssertionError"
            /\ gen_pc' = "raised"
            /\ UNCHANGED <<read_pos, buffer, emitted>>
       ELSE IF Len(packet_source) < sort_window
       THEN \* packet_from_buffer raises outside of the try block
            /\ raised' = "PacketBufferExhausted"
            /\ gen_pc' = "raised"
            /\ read_pos' = Len(packet_source)
            /\ buffer' = PreFill
            /\ UNCHANGED emitted
       ELSE /\ read_pos' = sort_window
            /\ SortAndYield(PreFill)
            /\ UNCHANGED raised
    /\ UNCHANGED <<sort_window, packet_source, pseq_vars, store_vars, mapper_vars, decode_vars>>

\* a resume that admits two packets from the source when two are left
stream_resume_greedy ==
    /\ gen_pc = "yielded"
    /\ IF SourceExhausted(read_pos)
       THEN /\ DrainStep(buffer)
            /\ UNCHANGED read_pos
       ELSE IF SourceExhausted(read_pos + 1)
       THEN /\ read_pos' = read_pos + 1
            /\ SortAndYield(Append(buffer, BufferEntry(packet_source[read_pos + 1])))
       ELSE /\ read_pos' = read_pos + 2
            /\ SortAndYield(Append(Append(buffer, BufferEntry(packet_source[read_pos + 1])),
                                   BufferEntry(packet_source[read_pos + 2])))
    /\ UNCHANGED <<sort_window, packet_source, raised, pseq_vars, store_vars, mapper_vars, decode_vars>>

\* next() on the generator suspended at the yield of the sorting loop
stream_resume ==
    /\ gen_pc = "yielded"
    /\ IF SourceExhausted(read_pos)
       THEN /\ DrainStep(buffer)
            /\ UNCHANGED read_pos
       ELSE /\ read_pos' = read_pos + 1
            /\ SortAndYield(Append(buffer, BufferEntry(packet_source[read_pos + 1])))
    /\ UNCHANGED <<sort_window, packet_source, raised, pseq_vars, store_vars, mapper_vars, decode_vars>>

\* next() on the generator suspended at the yield of the drain loop
stream_drain ==
    /\ gen_pc = "draining"
    /\ DrainStep(buffer)
    /\ UNCHANGED <<sort_window, packet_source, read_pos, raised, pseq_vars, store_vars, mapper_vars, decode_vars>>

-----------------------------------------------------------------------------
(* Sources and windows stream_packets is run on *)

\* arrival orders of n packets: every permutation of the sender positions
ArrivalOrders(n) ==
    {f \in [1 .. n -> 0 .. (n - 1)] : \A i, j \in 1 .. n : f[i] = f[j] => i = j}

\* sender order, but the packet of sender position j arrives d places early
MoveEarly(n, j, d) ==
    [i \in 1 .. n |-> IF i - 1 < j - d THEN i - 1
                      ELSE IF i - 1 = j - d THEN j
                      ELSE IF i - 1 <= j THEN i - 2
                      ELSE i - 1]

\* sender order rotated: the packets from position r on arrive first
Rotate(n, r) == [i \in 1 .. n |-> (i - 1 + r) % n]

\* pseq of the sender's first packet
FirstPSeqs == {0, HighQuarter - 2, PSeqRange - 2, PSeqRange - 1}

\* windows tried on the short sources: small ones, the default, and the
\* ones at both sides of the two limits
SmallWindows == {-1, 0, 1, 2, 3, DefaultSortWindow,
                 SortWindowLimit - 1, SortWindowLimit, SortWindowLimit + 1}

ShortScenarios ==
    {[W |-> w, s0 |-> s, arr |-> a] :
        w \in SmallWindows, s \in FirstPSeqs,
        a \in UNION {ArrivalOrders(n) : n \in 0 .. MaxLen}}

\* longer sources: a rotated one, and ones whose buffer spans the
\* thresholds of the comparator
LongScenarios ==
    {[W |-> w, s0 |-> 0, arr |-> Rotate(16, 8)] : w \in {8, 9}}
    \cup {[W |-> 34, s0 |-> 177, arr |-> MoveEarly(80, 79, d)] : d \in {0, 33}}

StreamScenarios == ShortScenarios \cup LongScenarios

-----------------------------------------------------------------------------
(* Facts about a run of stream_packets *)

PSeqsOf(packets) == [i \in 1 .. Len(packets) |-> packets[i].pseq]

\* the packets of the source in the order the sender produced them
SenderOrder ==
    [i \in 1 .. Len(packet_source) |->
        CHOOSE p \in {packet_source[k] : k \in 1 .. Len(packet_source)} : p.id = i - 1]

Abs(x) == IF x < 0 THEN -x ELSE x

\* largest distance between a packet's arrival and sender positions
OutOfOrderDistance(d) ==
    \A i \in 1 .. Len(packet_source) : Abs(packet_source[i].id - (i - 1)) <= d

ValidWindow == sort_window > 0 /\ sort_window < SortWindowLimit

-----------------------------------------------------------------------------
(* MapInfoStore and MapInfoStoreCleaner: map.py *)

\* clean_delay: int = 30, in seconds
CleanDelay == 30

\* clock readings per clean_delay: the clock advances in steps of
\* CleanDelay \div TicksPerDelay seconds
TicksPerDelay == 2

\* number of clean_delay periods the clock runs for
MaxPeriods == 1

\* number of free_user/free_access calls of one run
MaxFrees == 1

ClockStep == CleanDelay \div TicksPerDelay
MaxTime == MaxPeriods * CleanDelay

\* identifiers the packets carry
StodValues == {1}
SidValues == {1}
DictIds == {1}

\* UserId(prot, user, pid, sid, host) of a map record
UserIdOf(sid) == [prot |-> "xroot", user |-> "usr", pid |-> 7, sid |-> sid, host |-> "host"]

\* SrvInfo payload
SrvInfoOf(port) == [pgm |-> "xrootd", ver |-> "v4", inst |-> "anon", port |-> port, site |-> "site"]

\* ServerInfo.__init__
ServerInfo(user_id, srv, stod) ==
    [protocol |-> user_id.prot, user |-> user_id.user, pid |-> user_id.pid,
     sid |-> user_id.sid, host |-> user_id.host, program |-> srv.pgm,
     version |-> srv.ver, instance |-> srv.inst, port |-> srv.port,
     site |-> srv.site, stod |-> stod]

\* UserInfo.__init__
UserInfo(client, server, auth_info) ==
    [client |-> client, server |-> server, auth_info |-> auth_info]

\* PathAccessInfo.__init__; auth defaults to None
PathAccessInfo(client, server, path, auth) ==
    [client |-> client, server |-> server, path |-> path, auth |-> auth]

None == [none |-> TRUE]

\* dict[key] = value
DictSet(d, key, value) == [k \in DOMAIN d \cup {key} |-> IF k = key THEN value ELSE d[k]]

\* dict.pop(key, None)
DictPop(d, key) == [k \in DOMAIN d \ {key} |-> d[k]]

EmptyDict == [k \in {} |-> None]

\* MapInfoStore.get_server / get_user / get_access succeed
HasServer(stod, sid) == <<stod, sid>> \in DOMAIN server_info
HasUser(stod, dictid) == <<stod, dictid>> \in DOMAIN user_info
HasAccess(stod, dictid) == <<stod, dictid>> \in DOMAIN access_info

\* the ids free_user and free_access are called for
FreeIds == {<<t, <<stod, dictid>>>> : t \in {"user", "access"}, stod \in StodValues, dictid \in DictIds}

\* get_user/get_access of a freed id succeeds
Resolvable(id) ==
    IF id[1] = "user" THEN id[2] \in DOMAIN user_info ELSE id[2] \in DOMAIN access_info

NoItem == [table |-> "none", key |-> <<0, 0>>]

StoreConstructed ==
    /\ server_info = EmptyDict
    /\ user_info = EmptyDict
    /\ access_info = EmptyDict
    /\ server_lifetime = EmptyDict
    /\ deletion_queue = <<>>
    /\ swapped_queue = <<>>
    /\ cleaner_pc = "swap"
    /\ cleaner_idx = 0
    /\ terminate_at = 0
    /\ now = 0
    /\ pipe_pc = "idle"
    /\ pipe_item = NoItem
    /\ pipe_list = "none"
    /\ freed_at = [id \in FreeIds |-> -1]
    /\ frees = 0
    /\ fresh = {}

StoreIdle == StoreConstructed

\* ---- pipeline thread

\* MapInfoStore._digest_map_server, reached through digest_map
digest_map_server(stod, dictid, user_id, srv) ==
    LET ident == <<user_id.host, srv.port>>
    IN  /\ pipe_pc = "idle"
        /\ deletion_queue' =
              IF ident \in DOMAIN server_lifetime
              THEN Append(deletion_queue,
                          [table |-> "server", key |-> server_lifetime[ident], late |-> FALSE])
              ELSE deletion_queue
        /\ server_info' = DictSet(server_info, <<stod, user_id.sid>>, ServerInfo(user_id, srv, stod))
        /\ UNCHANGED <<user_info, access_info, server_lifetime, swapped_queue,
                       cleaner_pc, cleaner_idx, terminate_at, now,
                       pipe_pc, pipe_item, pipe_list, freed_at, frees, fresh>>
        /\ UNCHANGED <<pseq_vars, stream_vars, mapper_vars, decode_vars>>

\* a _digest_map_auth that makes up the server it does not find
digest_map_auth_any_server(stod, dictid, user_id, auth) ==
    /\ pipe_pc = "idle"
    /\ user_info' = DictSet(user_info, <<stod, dictid>>,
                            UserInfo(user_id,
                                     IF HasServer(stod, user_id.sid)
                                     THEN server_info[<<stod, user_id.sid>>]
                                     ELSE ServerInfo(user_id, SrvInfoOf(0), stod),
                                     auth))
    /\ fresh' = fresh \cup {<<"user", <<stod, dictid>>>>}
    /\ UNCHANGED <<server_info, access_info, server_lifetime, deletion_queue,
                   swapped_queue, cleaner_pc, cleaner_idx, terminate_at, now,
                   pipe_pc, pipe_item, pipe_list, freed_at, frees>>
    /\ UNCHANGED <<pseq_vars, stream_vars, mapper_vars, decode_vars>>

\* MapInfoStore._digest_map_auth, reached through digest_map; a missing
\* server raises MapInfoError, which digest_map turns into StopTraversal
digest_map_auth(stod, dictid, user_id, auth) ==
    /\ pipe_pc = "idle"
    /\ user_info' = IF HasServer(stod, user_id.sid)
                    THEN DictSet(user_info, <<stod, dictid>>,
                                 UserInfo(user_id, server_info[<<stod, user_id.sid>>], auth))
                    ELSE user_info
    /\ fresh' = IF HasServer(stod, user_id.sid) THEN fresh \cup {<<"user", <<stod, dictid>>>>} ELSE fresh
    /\ UNCHANGED <<server_info, access_info, server_lifetime, deletion_queue,
                   swapped_queue, cleaner_pc, cleaner_idx, terminate_at, now,
                   pipe_pc, pipe_item, pipe_list, freed_at, frees>>
    /\ UNCHANGED <<pseq_vars, stream_vars, mapper_vars, decode_vars>>

\* MapInfoStore._digest_map_path, reached through digest_map
digest_map_path(stod, dictid, user_id, path) ==
    /\ pipe_pc = "idle"
    /\ access_info' = IF HasServer(stod, user_id.sid)
                      THEN DictSet(access_info, <<stod, dictid>>,
                                   PathAccessInfo(user_id, server_info[<<stod, user_id.sid>>], path, None))
                      ELSE access_info
    /\ fresh' = IF HasServer(stod, user_id.sid) THEN fresh \cup {<<"access", <<stod, dictid>>>>} ELSE fresh
    /\ UNCHANGED <<server_info, user_info, server_lifetime, deletion_queue,
                   swapped_queue, cleaner_pc, cleaner_idx, terminate_at, now,
                   pipe_pc, pipe_item, pipe_list, freed_at, frees>>
    /\ UNCHANGED <<pseq_vars, stream_vars, mapper_vars, decode_vars>>

\* MapInfoStoreCleaner.add_deletion, first half: self._deletion_queue is
\* evaluated and the instruction tuple is built
add_deletion_load(table, key) ==
    /\ pipe_pc = "idle"
    /\ pipe_pc' = "append"
    /\ pipe_item' = [table |-> table, key |-> key]
    /\ pipe_list' = "current"
    /\ fresh' = fresh \ {<<table, key>>}

\* a free that runs the deletion at once instead of enqueueing it
free_user_immediate(stod, dictid) ==
    /\ frees < MaxFrees
    /\ frees' = frees + 1
    /\ add_deletion_load("user", <<stod, dictid>>)
    /\ user_info' = DictPop(user_info, <<stod, dictid>>)
    /\ UNCHANGED <<server_info, access_info, server_lifetime, deletion_queue,
                   swapped_queue, cleaner_pc, cleaner_idx, terminate_at, now, freed_at>>
    /\ UNCHANGED <<pseq_vars, stream_vars, mapper_vars, decode_vars>>

\* MapInfoStore.free_user, up to the evaluation of the queue
free_user(stod, dictid) ==
    /\ frees < MaxFrees
    /\ frees' = frees + 1
    /\ add_deletion_load("user", <<stod, dictid>>)
    /\ UNCHANGED <<table_vars, deletion_queue, swapped_queue, cleaner_pc,
                   cleaner_idx, terminate_at, now, freed_at>>
    /\ UNCHANGED <<pseq_vars, stream_vars, mapper_vars, decode_vars>>

\* MapInfoStore.free_access, up to the evaluation of the queue
free_access(stod, dictid) ==
    /\ frees < MaxFrees
    /\ frees' = frees + 1
    /\ add_deletion_load("access", <<stod, dictid>>)
    /\ UNCHANGED <<table_vars, deletion_queue, swapped_queue, cleaner_pc,
                   cleaner_idx, terminate_at, now, freed_at>>
    /\ UNCHANGED <<pseq_vars, stream_vars, mapper_vars, decode_vars>>

\* MapInfoStoreCleaner.add_deletion, second half: list.append on the list
\* evaluated before, and the return of free_user/free_access.  The list may
\* meanwhile have been swapped out by run(), or dropped by a second swap.
add_deletion_append ==
    /\ pipe_pc = "append"
    /\ deletion_queue' =
          IF pipe_list = "current"
          THEN Append(deletion_queue, [table |-> pipe_item.table, key |-> pipe_item.key, late |-> FALSE])
          ELSE deletion_queue
    /\ swapped_queue' =
          IF pipe_list = "swapped"
          THEN Append(swapped_queue, [table |-> pipe_item.table, key |-> pipe_item.key, late |-> TRUE])
          ELSE swapped_queue
    /\ freed_at' = LET id == <<pipe_item.table, pipe_item.key>>
                   IN  IF Resolvable(id) THEN [freed_at EXCEPT ![id] = now] ELSE freed_at
    /\ pipe_pc' = "idle"
    /\ pipe_item' = NoItem
    /\ pipe_list' = "none"
    /\ UNCHANGED <<table_vars, cleaner_pc, cleaner_idx, terminate_at, now, frees, fresh>>
    /\ UNCHANGED <<pseq_vars, stream_vars, mapper_vars, decode_vars>>

\* the owner of the MapInfoStore drops its last reference while no method
\* of the store is running: the store is deallocated, the weak reference of
\* the cleaner is dead, and no method of the store is called again
store_release ==
    /\ pipe_pc = "idle"
    /\ pipe_pc' = "released"
    /\ UNCHANGED <<table_vars, deletion_queue, swapped_queue, cleaner_pc, cleaner_idx,
                   terminate_at, now, pipe_item, pipe_list, freed_at, frees, fresh>>
    /\ UNCHANGED <<pseq_vars, stream_vars, mapper_vars, decode_vars>>

\* ---- cleaner thread: MapInfoStoreCleaner.run

\* parent_ref(): the store the weak reference names, if it still exists
ParentAlive == pipe_pc /= "released"

\* a loop that tests the weak reference against nothing: while True
cleaner_swap_forever ==
    /\ cleaner_pc = "swap"
    /\ terminate_at' = now + CleanDelay
    /\ swapped_queue' = deletion_queue
    /\ deletion_queue' = <<>>
    /\ pipe_list' = IF pipe_list = "current" THEN "swapped"
                    ELSE IF pipe_list = "swapped" THEN "dropped"
                    ELSE pipe_list
    /\ cleaner_pc' = "sleep_short"
    /\ UNCHANGED <<table_vars, cleaner_idx, now, pipe_pc, pipe_item, freed_at, frees, fresh>>
    /\ UNCHANGED <<pseq_vars, stream_vars, mapper_vars, decode_vars>>

\* while parent_ref() is not None  finds the store gone: run() returns
cleaner_stop ==
    /\ cleaner_pc = "swap"
    /\ ~ParentAlive
    /\ cleaner_pc' = "stopped"
    /\ UNCHANGED <<table_vars, deletion_queue, swapped_queue, cleaner_idx, terminate_at, now,
                   pipe_pc, pipe_item, pipe_list, freed_at, frees, fresh>>
    /\ UNCHANGED <<pseq_vars, stream_vars, mapper_vars, decode_vars>>

\* while parent_ref() is not None  finds the store:
\* terminate_at = time.time() + self._clean_delay, and the swap
\* self._deletion_queue, deletion_queue = [], self._deletion_queue
cleaner_swap ==
    /\ cleaner_pc = "swap"
    /\ ParentAlive
    /\ terminate_at' = now + CleanDelay
    /\ swapped_queue' = deletion_queue
    /\ deletion_queue' = <<>>
    /\ pipe_list' = IF pipe_list = "current" THEN "swapped"
                    ELSE IF pipe_list = "swapped" THEN "dropped"
                    ELSE pipe_list
    /\ cleaner_pc' = "sleep_short"
    /\ UNCHANGED <<table_vars, cleaner_idx, now, pipe_pc, pipe_item, freed_at, frees, fresh>>
    /\ UNCHANGED <<pseq_vars, stream_vars, mapper_vars, decode_vars>>

\* time.sleep(0.1) returns, the for loop creates its list iterator; the
\* sleep is shorter than one clock step, so no clock reading has to pass
cleaner_wake ==
    /\ cleaner_pc = "sleep_short"
    /\ cleaner_pc' = "drain"
    /\ cleaner_idx' = 0
    /\ UNCHANGED <<table_vars, deletion_queue, swapped_queue, terminate_at, now,
                   pipe_pc, pipe_item, pipe_list, freed_at, frees, fresh>>
    /\ UNCHANGED <<pseq_vars, stream_vars, mapper_vars, decode_vars>>

\* instruction(*args, **kwargs): dict.pop(key, None) on the table of the item
RunInstruction(item) ==
    /\ server_info' = IF item.table = "server" THEN DictPop(server_info, item.key) ELSE server_info
    /\ user_info' = IF item.table = "user" THEN DictPop(user_info, item.key) ELSE user_info
    /\ access_info' = IF item.table = "access" THEN DictPop(access_info, item.key) ELSE access_info

\* one round of  for instruction, args, kwargs in deletion_queue:  the list
\* iterator yields the next item, or ends the loop
cleaner_drain ==
    /\ cleaner_pc = "drain"
    /\ IF cleaner_idx < Len(swapped_queue)
       THEN /\ RunInstruction(swapped_queue[cleaner_idx + 1])
            /\ cleaner_idx' = cleaner_idx + 1
            /\ cleaner_pc' = "drain"
       ELSE /\ UNCHANGED <<server_info, user_info, access_info, cleaner_idx>>
            /\ cleaner_pc' = "sleep_long"
    /\ UNCHANGED <<server_lifetime, deletion_queue, swapped_queue, terminate_at, now,
                   pipe_pc, pipe_item, pipe_list, freed_at, frees, fresh>>
    /\ UNCHANGED <<pseq_vars, stream_vars, mapper_vars, decode_vars>>

\* time.sleep(terminate_at - time.time()) returns, or raises ValueError on a
\* negative argument; either way the while loop starts over
cleaner_sleep_end ==
    /\ cleaner_pc = "sleep_long"
    /\ now >= terminate_at
    /\ cleaner_pc' = "swap"
    /\ UNCHANGED <<table_vars, deletion_queue, swapped_queue, cleaner_idx, terminate_at, now,
                   pipe_pc, pipe_item, pipe_list, freed_at, frees, fresh>>
    /\ UNCHANGED <<pseq_vars, stream_vars, mapper_vars, decode_vars>>

\* the clock advances
Tick ==
    /\ now + ClockStep <= MaxTime
    /\ now' = now + ClockStep
    /\ UNCHANGED <<table_vars, deletion_queue, swapped_queue, cleaner_pc, cleaner_idx,
                   terminate_at, pipe_pc, pipe_item, pipe_list, freed_at, frees, fresh>>
    /\ UNCHANGED <<pseq_vars, stream_vars, mapper_vars, decode_vars>>

-----------------------------------------------------------------------------
(* StreamMapper: __init__.py, and the digesters of fstat.py, trace.py and  *)
(* redir.py it dispatches to.  The pipeline thread digests one packet at a *)
(* time; the digesters are written as functions of the packet and of the   *)
(* store the pipeline thread sees, and return the store they leave.        *)

\* the MapInfoStore as the pipeline thread finds it
TheStore ==
    [server |-> server_info, user |-> user_info, access |-> access_info,
     lifetime |-> server_lifetime, queue |-> deletion_queue]

\* a call returns a value
Return(value, st) == [ok |-> TRUE, value |-> value, st |-> st]

\* a call raises MapInfoError
RaiseMapInfoError(st) == [ok |-> FALSE, value |-> None, st |-> st]

\* a lookup that answers a miss with a placeholder instead of raising
get_server_default(st, stod, sid) ==
    Return(IF <<stod, sid>> \in DOMAIN st.server
           THEN st.server[<<stod, sid>>]
           ELSE ServerInfo(UserIdOf(sid), SrvInfoOf(0), stod),
           st)

\* MapInfoStore.get_server
get_server(st, stod, sid) ==
    IF <<stod, sid>> \in DOMAIN st.server
    THEN Return(st.server[<<stod, sid>>], st)
    ELSE RaiseMapInfoError(st)

\* MapInfoStore.get_user
get_user(st, stod, dictid) ==
    IF <<stod, dictid>> \in DOMAIN st.user
    THEN Return(st.user[<<stod, dictid>>], st)
    ELSE RaiseMapInfoError(st)

\* MapInfoStore.get_access
get_access(st, stod, dictid) ==
    IF <<stod, dictid>> \in DOMAIN st.access
    THEN Return(st.access[<<stod, dictid>>], st)
    ELSE RaiseMapInfoError(st)

\* MapInfoStoreCleaner.add_deletion, both halves in one step of the pipeline
\* thread: the cleaner does not swap the queue in between
add_deletion(st, table, key) ==
    [st EXCEPT !.queue = Append(@, [table |-> table, key |-> key, late |-> FALSE])]

\* a set_access that takes an unknown user for no user
set_access_lenient(st, server, dictid, userid, path) ==
    LET user == get_user(st, server.stod, userid)
        item == IF userid > 0 /\ user.ok
                THEN PathAccessInfo(user.value.client, server, path, user.value.auth_info)
                ELSE PathAccessInfo(None, server, path, None)
    IN  Return(item, [st EXCEPT !.access = DictSet(@, <<server.stod, dictid>>, item)])

\* a set_access that keeps an entry already installed under the key
set_access_keeping(st, server, dictid, userid, path) ==
    LET user == get_user(st, server.stod, userid)
        item == IF userid > 0
                THEN PathAccessInfo(user.value.client, server, path, user.value.auth_info)
                ELSE PathAccessInfo(None, server, path, None)
        kept == IF <<server.stod, dictid>> \in DOMAIN st.access
                THEN st.access[<<server.stod, dictid>>] ELSE item
    IN  IF userid > 0 /\ ~user.ok
        THEN RaiseMapInfoError(st)
        ELSE Return(kept, [st EXCEPT !.access = DictSet(@, <<server.stod, dictid>>, kept)])

\* MapInfoStore.set_access
set_access(st, server, dictid, userid, path) ==
    LET user == get_user(st, server.stod, userid)
        item == IF userid > 0
                THEN PathAccessInfo(user.value.client, server, path, user.value.auth_info)
                ELSE PathAccessInfo(None, server, path, None)
    IN  IF userid > 0 /\ ~user.ok
        THEN RaiseMapInfoError(st)
        ELSE Return(item, [st EXCEPT !.access = DictSet(@, <<server.stod, dictid>>, item)])

\* ---- fstat.py

\* fstat.Disconnect.from_record: get_user, then free_user
fstat_Disconnect_from_record(record_struct, server, st) ==
    LET client == get_user(st, server.stod, record_struct.dictid)
    IN  IF ~client.ok THEN RaiseMapInfoError(st)
        ELSE Return([event |-> "fstat.Disconnect", client |-> client.value],
                    add_deletion(st, "user", <<server.stod, record_struct.dictid>>))

\* an Open that builds the access info of an inline user/lfn without
\* putting it into the map
fstat_Open_not_installed(record_struct, server, st) ==
    LET access_info_ == IF ~record_struct.hasLFN
                        THEN get_access(st, server.stod, record_struct.fileid)
                        ELSE set_access(st, server, record_struct.fileid,
                                        record_struct.user, record_struct.lfn)
    IN  IF ~access_info_.ok THEN RaiseMapInfoError(st)
        ELSE Return([event |-> "fstat.Open", client |-> access_info_.value,
                     lfn |-> access_info_.value.path, readwrite |-> record_struct.hasRW,
                     filesize |-> record_struct.filesize],
                    st)

\* fstat.Open.from_record: record_struct.user is None exactly when the
\* record was decoded without the hasLFN flag
fstat_Open_from_record(record_struct, server, st) ==
    LET read_write == record_struct.hasRW
        access_info_ == IF ~record_struct.hasLFN
                        THEN get_access(st, server.stod, record_struct.fileid)
                        ELSE set_access(st, server, record_struct.fileid,
                                        record_struct.user, record_struct.lfn)
    IN  IF ~access_info_.ok THEN RaiseMapInfoError(st)
        ELSE Return([event |-> "fstat.Open", client |-> access_info_.value,
                     lfn |-> access_info_.value.path, readwrite |-> read_write,
                     filesize |-> record_struct.filesize],
                    access_info_.st)

\* fstat.Close.from_record: get_access, then free_access
fstat_Close_from_record(record_struct, server, st) ==
    LET path_info == get_access(st, server.stod, record_struct.fileid)
    IN  IF ~path_info.ok THEN RaiseMapInfoError(st)
        ELSE Return([event |-> "fstat.Close", client |-> path_info.value,
                     lfn |-> path_info.value.path, stats |-> record_struct],
                    add_deletion(st, "access", <<server.stod, record_struct.fileid>>))

\* fstat.Transfer.from_record: get_access, then free_access
fstat_Transfer_from_record(record_struct, server, st) ==
    LET path_info == get_access(st, server.stod, record_struct.fileid)
    IN  IF ~path_info.ok THEN RaiseMapInfoError(st)
        ELSE Return([event |-> "fstat.Transfer", client |-> path_info.value,
                     lfn |-> path_info.value.path, stats |-> record_struct],
                    add_deletion(st, "access", <<server.stod, record_struct.fileid>>))

\* fstat.convert_record_dispatch[type(record_struct)]
fstat_convert_record_dispatch(record_struct, server, st) ==
    CASE record_struct.type = "FileDSC" -> fstat_Disconnect_from_record(record_struct, server, st)
      [] record_struct.type = "FileOPN" -> fstat_Open_from_record(record_struct, server, st)
      [] record_struct.type = "FileCLS" -> fstat_Close_from_record(record_struct, server, st)
      [] record_struct.type = "FileXFR" -> fstat_Transfer_from_record(record_struct, server, st)

\* FstatWindow.__init__
FstatWindow(server_info_, start, end, records) ==
    [event |-> "FstatWindow", server_info |-> server_info_, start |-> start,
     end |-> end, records |-> records]

\* what a digester leaves behind: the elements it produced, the store, and
\* the exception that left it ("none" when it returned or was exhausted)
Digested(out, st, exc) == [out |-> out, st |-> st, raised |-> exc]

\* raise chainlet.StopTraversal: the traversal of the chain ends for this
\* packet, what was produced before stays produced, nothing reaches the caller
StopTraversal(out, st) == Digested(out, st, "none")

\* a loop that ends at the first record whose converter raises MapInfoError
RECURSIVE fstat_convert_records_break(_, _, _, _)
fstat_convert_records_break(todo, server, st, records) ==
    IF todo = <<>> THEN [records |-> records, st |-> st]
    ELSE LET r == fstat_convert_record_dispatch(Head(todo), server, st)
         IN  IF r.ok
             THEN fstat_convert_records_break(Tail(todo), server, r.st, Append(records, r.value))
             ELSE [records |-> records, st |-> st]

\* the for loop of fstat.digest_packet: a record whose converter raises
\* MapInfoError is skipped, the others are appended to records
RECURSIVE fstat_convert_records(_, _, _, _)
fstat_convert_records(todo, server, st, records) ==
    IF todo = <<>> THEN [records |-> records, st |-> st]
    ELSE LET r == fstat_convert_record_dispatch(Head(todo), server, st)
         IN  fstat_convert_records(Tail(todo), server, r.st,
                                   IF r.ok THEN Append(records, r.value) ELSE records)

\* fstat.digest_packet
fstat_digest_packet(stod, fstat_struct, st) ==
    LET server_info_ == get_server(st, stod, fstat_struct.tod.sid)
        loop == fstat_convert_records(fstat_struct.records, server_info_.value, st, <<>>)
    IN  IF ~server_info_.ok THEN StopTraversal(<<>>, st)
        ELSE IF loop.records = <<>> THEN StopTraversal(<<>>, loop.st)
        ELSE Digested(<<FstatWindow(server_info_.value, fstat_struct.tod.start,
                                    fstat_struct.tod.end, loop.records)>>,
                      loop.st, "none")

\* ---- trace.py

\* trace.Disconnect.from_record: get_user, then free_user
trace_Disconnect_from_record(record_struct, stod, st) ==
    LET client == get_user(st, stod, record_struct.dictid)
    IN  IF ~client.ok THEN RaiseMapInfoError(st)
        ELSE Return([event |-> "trace.Disconnect", client |-> client.value,
                     duration |-> record_struct.buflen, forced |-> record_struct.forced],
                    add_deletion(st, "user", <<stod, record_struct.dictid>>))

\* trace.Open.from_record
trace_Open_from_record(record_struct, stod, st) ==
    LET path_info == get_access(st, stod, record_struct.dictid)
    IN  IF ~path_info.ok THEN RaiseMapInfoError(st)
        ELSE Return([event |-> "trace.Open", client |-> path_info.value,
                     lfn |-> path_info.value.path, filesize |-> record_struct.filesize],
                    st)

\* the if/else of trace.ReadWrite.from_record:
\*   read, write = buflen, 0   or   write, read = buflen, 0
ReadWriteSplit(buflen) ==
    IF buflen > 0 THEN [read |-> buflen, write |-> 0]
    ELSE [read |-> 0, write |-> buflen]

\* a ReadWrite that frees the access it reports on
trace_ReadWrite_freeing(record_struct, stod, st) ==
    LET path_info == get_access(st, stod, record_struct.dictid)
        split == ReadWriteSplit(record_struct.buflen)
    IN  IF ~path_info.ok THEN RaiseMapInfoError(st)
        ELSE Return([event |-> "trace.ReadWrite", client |-> path_info.value,
                     lfn |-> path_info.value.path, offset |-> record_struct.val,
                     read |-> split.read, write |-> split.write],
                    add_deletion(st, "access", <<stod, record_struct.dictid>>))

\* trace.ReadWrite.from_record
trace_ReadWrite_from_record(record_struct, stod, st) ==
    LET path_info == get_access(st, stod, record_struct.dictid)
        split == ReadWriteSplit(record_struct.buflen)
    IN  IF ~path_info.ok THEN RaiseMapInfoError(st)
        ELSE Return([event |-> "trace.ReadWrite", client |-> path_info.value,
                     lfn |-> path_info.value.path, offset |-> record_struct.val,
                     read |-> split.read, write |-> split.write],
                    st)

\* a Close that frees the access before it looks it up
trace_Close_free_first(record_struct, stod, st) ==
    LET freed == add_deletion(st, "access", <<stod, record_struct.dictid>>)
        path_info == get_access(freed, stod, record_struct.dictid)
    IN  IF ~path_info.ok THEN RaiseMapInfoError(freed)
        ELSE Return([event |-> "trace.Close", client |-> path_info.value,
                     lfn |-> path_info.value.path, rtot |-> record_struct.rtot,
                     wtot |-> record_struct.wtot],
                    freed)

\* trace.Close.from_record: get_access, then free_access
trace_Close_from_record(record_struct, stod, st) ==
    LET path_info == get_access(st, stod, record_struct.dictid)
    IN  IF ~path_info.ok THEN RaiseMapInfoError(st)
        ELSE Return([event |-> "trace.Close", client |-> path_info.value,
                     lfn |-> path_info.value.path, rtot |-> record_struct.rtot,
                     wtot |-> record_struct.wtot],
                    add_deletion(st, "access", <<stod, record_struct.dictid>>))

\* trace.ignore_not_implemented
ignore_not_implemented(record_struct, stod, st) == RaiseMapInfoError(st)

\* the keys of trace.convert_record_dispatch; any other type is a KeyError
trace_convert_record_types == {"Close", "Open", "Disc", "ReadWrite", "ReadU", "ReadV"}

\* trace.convert_record_dispatch[type(record_struct)]
trace_convert_record_dispatch(record_struct, stod, st) ==
    CASE record_struct.type = "Close" -> trace_Close_from_record(record_struct, stod, st)
      [] record_struct.type = "Open" -> trace_Open_from_record(record_struct, stod, st)
      [] record_struct.type = "Disc" -> trace_Disconnect_from_record(record_struct, stod, st)
      [] record_struct.type = "ReadWrite" -> trace_ReadWrite_from_record(record_struct, stod, st)
      [] record_struct.type \in {"ReadU", "ReadV"} -> ignore_not_implemented(record_struct, stod, st)

\* TraceWindow.__init__
TraceWindow(server_info_, start, end, records) ==
    [event |-> "TraceWindow", server_info |-> server_info_, start |-> start,
     end |-> end, records |-> records]

\* the for loop of trace.digest_packet and the assert that follows it; out
\* holds the windows yielded so far
RECURSIVE trace_digest_records(_, _, _, _, _, _, _)
trace_digest_records(todo, this_window, records, out, stod, server_info_, st) ==
    IF todo = <<>>
    THEN Digested(out, st, IF records /= <<>> THEN "AssertionError" ELSE "none")
    ELSE LET record_struct == Head(todo)
             r == trace_convert_record_dispatch(record_struct, stod, st)
         IN  IF record_struct.type \notin trace_convert_record_types
             THEN IF record_struct.type /= "Window"
                  THEN Digested(out, st, "AssertionError")
                  ELSE trace_digest_records(
                          Tail(todo), record_struct, <<>>,
                          IF records /= <<>>
                          THEN Append(out, TraceWindow(server_info_, this_window.start,
                                                       record_struct.end, records))
                          ELSE out,
                          stod, server_info_, st)
             ELSE trace_digest_records(
                     Tail(todo), this_window,
                     IF r.ok THEN Append(records, r.value) ELSE records,
                     out, stod, server_info_, r.st)

\* trace.digest_packet, run to exhaustion; the packet holds a record
trace_digest_packet(stod, buff_struct, st) ==
    LET this_window == Head(buff_struct.records)
        server_info_ == get_server(st, stod, this_window.sid)
    IN  IF this_window.type /= "Window" THEN Digested(<<>>, st, "AssertionError")
        ELSE IF ~server_info_.ok THEN StopTraversal(<<>>, st)
        ELSE trace_digest_records(Tail(buff_struct.records), this_window, <<>>, <<>>,
                                  stod, server_info_.value, st)

\* ---- redir.py

\* Redirection.from_record, called on CmsdRedir or XrootdRedir
Redirection_from_record(cls, record_struct, stod, st) ==
    LET client == get_user(st, stod, record_struct.dictid)
    IN  IF ~client.ok THEN RaiseMapInfoError(st)
        ELSE Return([event |-> cls, action |-> record_struct.subtype,
                     target |-> record_struct.server, port |-> record_struct.port,
                     client |-> client.value, path |-> record_struct.path],
                    st)

\* the keys of redir.convert_record_dispatch; any other type is a KeyError
redir_convert_record_types == {"REDIRECT", "REDLOCAL"}

\* redir.convert_record_dispatch[record_struct.type]
redir_convert_record_dispatch(record_struct, stod, st) ==
    CASE record_struct.type = "REDIRECT" ->
            Redirection_from_record("CmsdRedir", record_struct, stod, st)
      [] record_struct.type = "REDLOCAL" ->
            Redirection_from_record("XrootdRedir", record_struct, stod, st)

\* RedirWindow.__init__
RedirWindow(server_info_, start, end, records) ==
    [event |-> "RedirWindow", server_info |-> server_info_, start |-> start,
     end |-> end, records |-> records]

\* a loop that ends a window at the timestamp of the mark that closes it
RECURSIVE redir_digest_records_to_mark(_, _, _, _, _, _, _)
redir_digest_records_to_mark(todo, this_window, records, out, stod, server_info_, st) ==
    IF todo = <<>>
    THEN Digested(out, st, IF records /= <<>> THEN "AssertionError" ELSE "none")
    ELSE LET record_struct == Head(todo)
             r == redir_convert_record_dispatch(record_struct, stod, st)
         IN  IF record_struct.type \notin redir_convert_record_types
             THEN IF record_struct.type /= "REDTIME"
                  THEN Digested(out, st, "AssertionError")
                  ELSE redir_digest_records_to_mark(
                          Tail(todo), record_struct, <<>>,
                          IF records /= <<>>
                          THEN Append(out, RedirWindow(server_info_, this_window.timestamp,
                                                       record_struct.timestamp, records))
                          ELSE out,
                          stod, server_info_, st)
             ELSE redir_digest_records_to_mark(
                     Tail(todo), this_window,
                     IF r.ok THEN Append(records, r.value) ELSE records,
                     out, stod, server_info_, r.st)

\* the for loop of redir.digest_packet and the assert that follows it
RECURSIVE redir_digest_records(_, _, _, _, _, _, _)
redir_digest_records(todo, this_window, records, out, stod, server_info_, st) ==
    IF todo = <<>>
    THEN Digested(out, st, IF records /= <<>> THEN "AssertionError" ELSE "none")
    ELSE LET record_struct == Head(todo)
             r == redir_convert_record_dispatch(record_struct, stod, st)
         IN  IF record_struct.type \notin redir_convert_record_types
             THEN IF record_struct.type /= "REDTIME"
                  THEN Digested(out, st, "AssertionError")
                  ELSE redir_digest_records(
                          Tail(todo), record_struct, <<>>,
                          IF records /= <<>>
                          THEN Append(out, RedirWindow(server_info_, this_window.timestamp,
                                                       this_window.timestamp
                                                         + record_struct.prev_duration,
                                                       records))
                          ELSE out,
                          stod, server_info_, st)
             ELSE redir_digest_records(
                     Tail(todo), this_window,
                     IF r.ok THEN Append(records, r.value) ELSE records,
                     out, stod, server_info_, r.st)

\* redir.digest_packet, run to exhaustion: the except clause names KeyError,
\* get_server raises MapInfoError, which therefore leaves the generator
redir_digest_packet(stod, burr_struct, st) ==
    LET server_info_ == get_server(st, stod, burr_struct.sid.sid)
        this_window == Head(burr_struct.records)
    IN  IF ~server_info_.ok THEN Digested(<<>>, st, "MapInfoError")
        ELSE IF this_window.type /= "REDTIME" THEN Digested(<<>>, st, "AssertionError")
        ELSE redir_digest_records(Tail(burr_struct.records), this_window, <<>>, <<>>,
                                  stod, server_info_.value, st)

\* ---- map.py, as StreamMapper reaches it

\* MapInfoStore._digest_map_server as a function of the store
MapInfoStore_digest_map_server(st, stod, dictid, user_id, srv) ==
    LET ident == <<user_id.host, srv.port>>
        scheduled == IF ident \in DOMAIN st.lifetime
                     THEN add_deletion(st, "server", st.lifetime[ident])
                     ELSE st
        item == ServerInfo(user_id, srv, stod)
    IN  Return(item, [scheduled EXCEPT !.server = DictSet(@, <<stod, user_id.sid>>, item)])

\* a _digest_map_auth that registers the user of a server it does not know
MapInfoStore_digest_map_auth_unchecked(st, stod, dictid, user_id, auth_info) ==
    LET server_info_ == get_server(st, stod, user_id.sid)
        item == UserInfo(user_id, server_info_.value, auth_info)
    IN  Return(item, [st EXCEPT !.user = DictSet(@, <<stod, dictid>>, item)])

\* MapInfoStore._digest_map_auth as a function of the store
MapInfoStore_digest_map_auth(st, stod, dictid, user_id, auth_info) ==
    LET server_info_ == get_server(st, stod, user_id.sid)
        item == UserInfo(user_id, server_info_.value, auth_info)
    IN  IF ~server_info_.ok THEN RaiseMapInfoError(st)
        ELSE Return(item, [st EXCEPT !.user = DictSet(@, <<stod, dictid>>, item)])

\* a _digest_map_path that builds the access info without putting it into
\* the access table
MapInfoStore_digest_map_path_not_installed(st, stod, dictid, user_id, path_info) ==
    LET server_info_ == get_server(st, stod, user_id.sid)
        item == PathAccessInfo(user_id, server_info_.value, path_info.path, None)
    IN  IF ~server_info_.ok THEN RaiseMapInfoError(st)
        ELSE Return(item, st)

\* MapInfoStore._digest_map_path as a function of the store
MapInfoStore_digest_map_path(st, stod, dictid, user_id, path_info) ==
    LET server_info_ == get_server(st, stod, user_id.sid)
        item == PathAccessInfo(user_id, server_info_.value, path_info.path, None)
    IN  IF ~server_info_.ok THEN RaiseMapInfoError(st)
        ELSE Return(item, [st EXCEPT !.access = DictSet(@, <<stod, dictid>>, item)])

\* the keys of MapInfoStore._payload_dispatch; any other type is a KeyError
payload_dispatch_types == {"SrvInfo", "AuthInfo", "Path"}

\* a digest_map that files a payload without digest method under its dictid
digest_map_filing(stod, map_struct, st) ==
    LET r == CASE map_struct.payload_type = "SrvInfo" ->
                    MapInfoStore_digest_map_server(st, stod, map_struct.dictid,
                                                   map_struct.userid, map_struct.payload)
               [] map_struct.payload_type = "AuthInfo" ->
                    MapInfoStore_digest_map_auth(st, stod, map_struct.dictid,
                                                 map_struct.userid, map_struct.payload)
               [] map_struct.payload_type = "Path" ->
                    MapInfoStore_digest_map_path(st, stod, map_struct.dictid,
                                                 map_struct.userid, map_struct.payload)
    IN  IF map_struct.payload_type \notin payload_dispatch_types
        THEN Digested(<<>>, [st EXCEPT !.access = DictSet(@, <<stod, map_struct.dictid>>,
                                                          map_struct.payload)],
                      "KeyError")
        ELSE IF ~r.ok THEN StopTraversal(<<>>, st)
        ELSE Digested(<<r.value>>, r.st, "none")

\* MapInfoStore.digest_map
digest_map(stod, map_struct, st) ==
    LET r == CASE map_struct.payload_type = "SrvInfo" ->
                    MapInfoStore_digest_map_server(st, stod, map_struct.dictid,
                                                   map_struct.userid, map_struct.payload)
               [] map_struct.payload_type = "AuthInfo" ->
                    MapInfoStore_digest_map_auth(st, stod, map_struct.dictid,
                                                 map_struct.userid, map_struct.payload)
               [] map_struct.payload_type = "Path" ->
                    MapInfoStore_digest_map_path(st, stod, map_struct.dictid,
                                                 map_struct.userid, map_struct.payload)
    IN  IF map_struct.payload_type \notin payload_dispatch_types
        THEN Digested(<<>>, st, "KeyError")
        ELSE IF ~r.ok THEN StopTraversal(<<>>, st)
        ELSE Digested(<<r.value>>, r.st, "none")

\* ---- StreamMapper

\* number of packets one run hands to the mapper
MaxPackets == 3

\* chainlet_send and the traversal of what the processor yields: the store
\* is left as the digester leaves it, the elements are passed on, and an
\* exception other than StopTraversal reaches the caller of the chain
chainlet_send(value, d) ==
    /\ mapper_raised = "none"
    /\ mapper_count < MaxPackets
    /\ mapper_count' = mapper_count + 1
    /\ mapper_packet' = value
    /\ mapper_out' = d.out
    /\ mapper_raised' = d.raised
    /\ server_info' = d.st.server
    /\ user_info' = d.st.user
    /\ access_info' = d.st.access
    /\ server_lifetime' = d.st.lifetime
    /\ deletion_queue' = d.st.queue
    /\ UNCHANGED <<swapped_queue, cleaner_pc, cleaner_idx, terminate_at, now,
                   pipe_pc, pipe_item, pipe_list, freed_at, frees, fresh>>
    /\ UNCHANGED <<pseq_vars, stream_vars, decode_vars>>

\* StreamMapper._process_map
process_map(value) ==
    /\ value.code = "map"
    /\ chainlet_send(value, digest_map(value.header.stod, value.record, TheStore))

\* StreamMapper._process_fstat
process_fstat(value) ==
    /\ value.code = "fstat"
    /\ chainlet_send(value, fstat_digest_packet(value.header.stod, value.record, TheStore))

\* StreamMapper._process_trace
process_trace(value) ==
    /\ value.code = "trace"
    /\ chainlet_send(value, trace_digest_packet(value.header.stod, value.record, TheStore))

\* StreamMapper._process_redir
process_redir(value) ==
    /\ value.code = "redir"
    /\ chainlet_send(value, redir_digest_packet(value.header.stod, value.record, TheStore))

\* StreamMapper._process_plugin
process_plugin(value) ==
    /\ value.code = "plugin"
    /\ chainlet_send(value, Digested(<<value.record>>, TheStore, "none"))

\* ---- the packets handed to the mapper

\* longest run of records between two marks for which every run is tried
MaxRecords == 2

\* sequences over S of length 0 .. n
SeqsUpTo(S, n) == UNION {[1 .. k -> S] : k \in 0 .. n}

\* server ids of the SrvInfo records; the other packets name the first one
MapperSids == {1, 2}
\* dictids of users, and those a FileDSC, a Disc or an inline user names
ClientIds == {1, 2}
InlineUsers == {0, 1}

\* Packet(header, record), with the kind of record it holds
MonPacket(code, stod, record) == [code |-> code, header |-> [stod |-> stod], record |-> record]

\* Map(dictid, userid, payload)
MapStruct(dictid, userid, payload_type, payload) ==
    [dictid |-> dictid, userid |-> userid, payload_type |-> payload_type, payload |-> payload]

MapPackets ==
    {MonPacket("map", stod, MapStruct(0, UserIdOf(sid), "SrvInfo", SrvInfoOf(1094))) :
        stod \in StodValues, sid \in MapperSids}
    \cup
    {MonPacket("map", stod, MapStruct(dictid, UserIdOf(1), "AuthInfo", [protocol |-> "gsi"])) :
        stod \in StodValues, dictid \in ClientIds}
    \cup
    {MonPacket("map", stod, MapStruct(1, UserIdOf(1), "Path", [path |-> "/lfn"])) :
        stod \in StodValues}
    \cup
    {MonPacket("map", stod, MapStruct(1, UserIdOf(1), payload_type, [info |-> "text"])) :
        stod \in StodValues, payload_type \in {"AppInfo", "PrgInfo", "XfrInfo"}}

\* FileTOD, FileDSC, FileOPN, FileCLS, FileXFR of structs/XrdXrootdMon/fstat.py
FileTOD(start, end, sid) == [type |-> "FileTOD", start |-> start, end |-> end, sid |-> sid]
FileDSC(dictid) == [type |-> "FileDSC", dictid |-> dictid]
FileOPN(fileid, hasLFN, user, lfn) ==
    [type |-> "FileOPN", fileid |-> fileid, hasLFN |-> hasLFN, hasRW |-> FALSE,
     filesize |-> 4096, user |-> user, lfn |-> lfn]
FileCLS(fileid) == [type |-> "FileCLS", fileid |-> fileid]
FileXFR(fileid) == [type |-> "FileXFR", fileid |-> fileid]

\* Fstat(tod, records)
FstatStruct(tod, records) == [tod |-> tod, records |-> records]

FstatRecords ==
    {FileDSC(1), FileOPN(1, FALSE, 0, ""), FileCLS(1), FileXFR(1)}
    \cup {FileOPN(1, TRUE, user, "/inline") : user \in InlineUsers}

\* the records of the longer runs: a FileXFR does to the store what a
\* FileCLS does
FstatRunRecords == FstatRecords \ {FileXFR(1)}

\* runs of records in a window that ends after it starts, and the shortest
\* runs in a window whose FileTOD has the two times the other way
FstatPackets ==
    {MonPacket("fstat", stod, FstatStruct(FileTOD(10, 20, 1), records)) :
        stod \in StodValues,
        records \in SeqsUpTo(FstatRunRecords, MaxRecords) \cup SeqsUpTo(FstatRecords, 1)}
    \cup
    {MonPacket("fstat", stod, FstatStruct(FileTOD(20, 10, 1), records)) :
        stod \in StodValues, records \in SeqsUpTo(FstatRecords, 1)}

\* Window, AppId, Close, Disc, Open, ReadWrite, ReadU of structs/XrdXrootdMon/trace.py
WindowStruct(sid, end, start) == [type |-> "Window", sid |-> sid, end |-> end, start |-> start]
AppIdStruct == [type |-> "AppId", appid |-> "app"]
CloseStruct(dictid) == [type |-> "Close", rtot |-> 2048, wtot |-> 0, dictid |-> dictid]
DiscStruct(dictid) == [type |-> "Disc", forced |-> FALSE, buflen |-> 60, dictid |-> dictid]
OpenStruct(dictid) == [type |-> "Open", filesize |-> 4096, dictid |-> dictid]
ReadWriteStruct(buflen, dictid) == [type |-> "ReadWrite", val |-> 0, buflen |-> buflen, dictid |-> dictid]
ReadUStruct(dictid) == [type |-> "ReadU", readid |-> 1, count |-> 1, buflen |-> 512, dictid |-> dictid]

\* sequence of the marks and of the runs of records between them, as the
\* flat record list of a packet: mark, run, mark, run, ..., mark
RECURSIVE Framed(_, _)
Framed(marks, groups) ==
    IF groups = <<>> THEN marks
    ELSE <<Head(marks)>> \o Head(groups) \o Framed(Tail(marks), Tail(groups))

\* Buff(records); marks and groups keep how the records were framed
BuffStruct(marks, groups) == [records |-> Framed(marks, groups), marks |-> marks, groups |-> groups]

\* the records trace.py converts, and all records a Buff packet may hold
ConvertedTraceRecords ==
    {OpenStruct(1), CloseStruct(1), DiscStruct(1)}
    \cup {ReadWriteStruct(buflen, 1) : buflen \in {-1024, 1024}}
TraceRecords == ConvertedTraceRecords \cup {ReadUStruct(1), AppIdStruct}

\* the records of the longer runs: the store treats a read as it treats a write
TraceRunRecords == ConvertedTraceRecords \ {ReadWriteStruct(-1024, 1)}

\* the k-th Window of a packet: it ends the window the one before started
WindowAt(k) == WindowStruct(1, 20 * k, 10 + 20 * k)

TraceFramings ==
    {[marks |-> <<WindowAt(0), WindowAt(1)>>, groups |-> <<g>>] :
        g \in SeqsUpTo(TraceRunRecords, MaxRecords) \cup SeqsUpTo(TraceRecords, 1)
              \cup {<<OpenStruct(1), ReadWriteStruct(1024, 1), CloseStruct(1)>>}}
    \cup
    {[marks |-> <<WindowAt(0), WindowStruct(1, 5, 30)>>, groups |-> <<g>>] :
        g \in SeqsUpTo(TraceRecords, 1)}
    \cup
    {[marks |-> <<WindowAt(0), WindowAt(1), WindowAt(2)>>, groups |-> <<g1, g2>>] :
        g1 \in SeqsUpTo(TraceRecords, 1), g2 \in SeqsUpTo(TraceRecords, 1)}

\* a framed packet with records after its last Window
DanglingBuffStruct(marks, groups, dangling) ==
    [records |-> Framed(marks, groups) \o dangling, marks |-> marks, groups |-> groups]

\* one record of any kind after the last Window, the window before it
\* empty or holding an Open
DanglingBuffStructs ==
    {DanglingBuffStruct(<<WindowAt(0), WindowAt(1)>>, <<g>>, <<d>>) :
        g \in {<<>>, <<OpenStruct(1)>>}, d \in TraceRecords}

TracePackets ==
    {MonPacket("trace", stod, BuffStruct(f.marks, f.groups)) :
        stod \in StodValues, f \in TraceFramings}
    \cup
    {MonPacket("trace", stod, buff_struct) :
        stod \in StodValues, buff_struct \in DanglingBuffStructs}

\* ServerIdent, Redirect and WindowMark of structs/XrdXrootdMon/redir.py; a
\* WindowMark is the record of type REDTIME
ServerIdent(sid) == [type |-> "REDSID", sid |-> sid]
RedirectStruct(type, dictid) ==
    [type |-> type, subtype |-> "open", dictid |-> dictid, server |-> "target",
     port |-> 1095, path |-> "/redir"]
WindowMarkStruct(prev_duration, timestamp) ==
    [type |-> "REDTIME", prev_duration |-> prev_duration, timestamp |-> timestamp]

\* Burr(sid, records)
BurrStruct(sid, marks, groups) ==
    [sid |-> sid, records |-> Framed(marks, groups), marks |-> marks, groups |-> groups]

RedirRecords ==
    {RedirectStruct("REDIRECT", dictid) : dictid \in ClientIds}
    \cup {RedirectStruct("REDLOCAL", 1)}

\* the k-th WindowMark of a packet: the window before it lasted 60 seconds
\* and ended 10 seconds before the mark
WindowMarkAt(k) == WindowMarkStruct(60, 100 + 70 * k)

RedirFramings ==
    {[marks |-> <<WindowMarkAt(0), WindowMarkAt(1)>>, groups |-> <<g>>] :
        g \in SeqsUpTo(RedirRecords, MaxRecords)}
    \cup
    {[marks |-> <<WindowMarkAt(0), WindowMarkAt(1), WindowMarkAt(2)>>, groups |-> <<g1, g2>>] :
        g1 \in SeqsUpTo(RedirRecords, 1), g2 \in SeqsUpTo(RedirRecords, 1)}

RedirPackets ==
    {MonPacket("redir", stod, BurrStruct(ServerIdent(1), f.marks, f.groups)) :
        stod \in StodValues, f \in RedirFramings}

PluginPackets ==
    {MonPacket("plugin", stod, [tBeg |-> 10, tEnd |-> 20, provider |-> "C"]) :
        stod \in StodValues}

-----------------------------------------------------------------------------
(* packet_from_buffer: utility.py, with Header, Packet and Buff of          *)
(* structs/XrdXrootdMon/__init__.py and the records of trace.py.  A byte is *)
(* a number in 0 .. 255, a buffer is a sequence of bytes.                   *)

\* Header.size, the size of struct.Struct('!c B H l')
HeaderSize == 8

\* TRACE_SIZE, the size of every record of the t stream
TRACE_SIZE == 16

\* the members of XROOTD_MON that mark a record of the t stream
XROOTD_MON_OPEN == 128
XROOTD_MON_READV == 144
XROOTD_MON_READU == 145
XROOTD_MON_APPID == 160
XROOTD_MON_CLOSE == 192
XROOTD_MON_DISC == 208
XROOTD_MON_WINDOW == 224

\* b't', the header code of a Buff packet
CodeBuff == 116

\* the keys of Packet.record_dispatch: b'=', b'd', b'i', b'p', b'u', b'x' for
\* Map, b'r' for Burr, b't' for Buff, b'f' for Fstat, b'g' for Plugin
RecordCodes == {61, 100, 105, 112, 117, 120, 114, CodeBuff, 102, 103}

\* packet_source.read(n): the next n bytes, or those that are left when the
\* source holds fewer; all that are left for a negative n
Read(src, pos, n) ==
    IF n < 0 \/ pos + n > Len(src) THEN SubSeq(src, pos + 1, Len(src))
    ELSE SubSeq(src, pos + 1, pos + n)

\* a call raises exc
Raised(exc) == [kind |-> "raised", exc |-> exc]

\* Header.from_buffer: struct '!c B H l' unpacked from the start of the buffer,
\* struct.error when it is shorter than the struct
Header_from_buffer(data) ==
    IF Len(data) < HeaderSize THEN Raised("struct.error")
    ELSE [kind |-> "header",
          code |-> data[1],
          pseq |-> data[2],
          plen |-> data[3] * 256 + data[4],
          stod |-> (IF data[5] >= 128 THEN data[5] - 256 ELSE data[5]) * 16777216
                   + data[6] * 65536 + data[7] * 256 + data[8]]

\* Buff.payload_dispatch
Buff_payload_dispatch ==
    (XROOTD_MON_APPID :> "AppId") @@ (XROOTD_MON_CLOSE :> "Close")
    @@ (XROOTD_MON_DISC :> "Disc") @@ (XROOTD_MON_OPEN :> "Open")
    @@ (XROOTD_MON_READU :> "ReadU") @@ (XROOTD_MON_READV :> "ReadV")
    @@ (XROOTD_MON_WINDOW :> "Window")

\* the while loop of Buff.from_record; a record keeps its fields in the
\* TRACE_SIZE bytes they are unpacked from
RECURSIVE Buff_from_record_loop(_, _)
Buff_from_record_loop(record_view, records) ==
    IF record_view = <<>> THEN [kind |-> "Buff", records |-> records]
    ELSE LET redir_type == record_view[1] - (record_view[1] % 16)
             payload_type == IF redir_type >= 128 THEN Buff_payload_dispatch[redir_type]
                             ELSE "ReadWrite"
         IN  IF redir_type >= 128 /\ redir_type \notin DOMAIN Buff_payload_dispatch
             THEN Raised("ValueError")
             ELSE IF Len(record_view) < TRACE_SIZE THEN Raised("struct.error")
             ELSE Buff_from_record_loop(
                     SubSeq(record_view, TRACE_SIZE + 1, Len(record_view)),
                     Append(records, [type |-> payload_type,
                                      data |-> SubSeq(record_view, 1, TRACE_SIZE)]))

\* Buff.from_record
Buff_from_record(record_data, record_code) ==
    IF record_code /= CodeBuff THEN Raised("ValueError")
    ELSE Buff_from_record_loop(record_data, <<>>)

\* Packet(header, record); Packet.size is header.plen
PacketOf(header, record) ==
    [kind |-> "packet", header |-> header, record |-> record, size |-> header.plen]

\* Packet.from_buffer, for a buffer that holds a header; of the record types
\* only Buff is decoded: the sources read here hold packets of the t stream
Packet_from_buffer(data) ==
    LET header == Header_from_buffer(data)
        last == IF header.plen < Len(data) THEN header.plen ELSE Len(data)
        record == CASE header.code = CodeBuff ->
                          Buff_from_record(SubSeq(data, HeaderSize + 1, last), header.code)
    IN  IF header.code \notin RecordCodes THEN Raised("ValueError")
        ELSE IF record.kind = "raised" THEN record
        ELSE PacketOf(header, record)

\* a packet_from_buffer that reads plen bytes after the header
packet_from_buffer_whole_plen(src, pos) ==
    LET header_data == Read(src, pos, HeaderSize)
        header == Header_from_buffer(header_data)
        rest == Read(src, pos + Len(header_data), header.plen)
    IN  IF header.kind = "raised"
        THEN [result |-> Raised("PacketBufferExhausted"), pos |-> pos + Len(header_data)]
        ELSE [result |-> Packet_from_buffer(header_data \o rest),
              pos |-> pos + Len(header_data) + Len(rest)]

\* packet_from_buffer: what it returns or raises, and where it leaves the
\* position of the source
packet_from_buffer(src, pos) ==
    LET header_data == Read(src, pos, HeaderSize)
        header == Header_from_buffer(header_data)
        rest == Read(src, pos + Len(header_data), header.plen - HeaderSize)
    IN  IF header.kind = "raised"
        THEN [result |-> Raised("PacketBufferExhausted"), pos |-> pos + Len(header_data)]
        ELSE [result |-> Packet_from_buffer(header_data \o rest),
              pos |-> pos + Len(header_data) + Len(rest)]

\* one call of packet_from_buffer on the source; its caller makes no further
\* call once a call has raised
read_packet ==
    /\ reader_result.kind \in {"none", "packet"}
    /\ LET r == packet_from_buffer(byte_source, byte_pos)
       IN  /\ reader_result' = r.result
           /\ byte_pos' = r.pos
    /\ reader_count' = reader_count + 1
    /\ UNCHANGED <<byte_written, byte_source, record_vars, userid_vars, body_vars>>
    /\ UNCHANGED <<pseq_vars, stream_vars, store_vars, mapper_vars>>

\* ---- the sources packet_from_buffer is run on

\* number of packets written to a source
MaxSourcePackets == 2

\* the bytes of a header
HeaderBytes(code, pseq, plen, stod) ==
    <<code, pseq, plen \div 256, plen % 256, 0, 0, 0, stod>>

\* the bytes of a record of the t stream: its mark, and a dictid of 1
TraceRecordBytes(mark) ==
    [i \in 1 .. TRACE_SIZE |-> IF i = 1 THEN mark ELSE IF i = TRACE_SIZE THEN 1 ELSE 0]

RECURSIVE Concat(_)
Concat(seqs) == IF seqs = <<>> THEN <<>> ELSE Head(seqs) \o Concat(Tail(seqs))

\* a Buff packet as the daemon writes it: plen counts the header and the records
BuffPacketBytes(pseq, marks) ==
    HeaderBytes(CodeBuff, pseq, HeaderSize + TRACE_SIZE * Len(marks), 1)
    \o Concat([i \in 1 .. Len(marks) |-> TraceRecordBytes(marks[i])])

\* Window, Window;  Window, Open, Window;  Window, ReadWrite, Close, Window
WrittenPackets ==
    {BuffPacketBytes(2, <<XROOTD_MON_WINDOW, XROOTD_MON_WINDOW>>),
     BuffPacketBytes(3, <<XROOTD_MON_WINDOW, XROOTD_MON_OPEN, XROOTD_MON_WINDOW>>),
     BuffPacketBytes(4, <<XROOTD_MON_WINDOW, 0, XROOTD_MON_CLOSE, XROOTD_MON_WINDOW>>)}

-----------------------------------------------------------------------------
(* Fstat.from_record and Burr.from_record: structs/XrdXrootdMon/__init__.py. *)
(* A record body is the sequence of its records, each with the type mark in  *)
(* its first byte; a decoded record is the class the mark selects and the    *)
(* data it was unpacked from.                                                *)

\* a record of a body: its type mark and its fields
RecordData(mark, fields) == [mark |-> mark, fields |-> fields]

\* payload_type.from_buffer(record_view)
Record_from_buffer(payload_type, data) == [type |-> payload_type, data |-> data]

\* Fstat.payload_dispatch, keyed by the values of recType
Fstat_payload_dispatch ==
    (4 :> "FileDSC") @@ (1 :> "FileOPN") @@ (2 :> "FileTOD")
    @@ (0 :> "FileCLS") @@ (3 :> "FileXFR")

\* the while loop of Fstat.from_record
RECURSIVE Fstat_from_record_loop(_, _)
Fstat_from_record_loop(record_view, records) ==
    IF record_view = <<>> THEN [kind |-> "records", records |-> records]
    ELSE LET redir_type == Head(record_view).mark
         IN  IF redir_type \notin DOMAIN Fstat_payload_dispatch THEN Raised("ValueError")
             ELSE Fstat_from_record_loop(
                     Tail(record_view),
                     Append(records, Record_from_buffer(Fstat_payload_dispatch[redir_type],
                                                        Head(record_view))))

\* a from_record that takes the first record for the FileTOD, whatever it is
Fstat_from_record_unchecked(record_data, record_code) ==
    LET loop == Fstat_from_record_loop(record_data, <<>>)
    IN  IF record_code /= "f" THEN Raised("ValueError")
        ELSE IF loop.kind = "raised" THEN loop
        ELSE IF loop.records = <<>> THEN Raised("IndexError")
        ELSE [kind |-> "Fstat", lead |-> Head(loop.records), records |-> Tail(loop.records)]

\* Fstat.from_record; lead is the tod of the Fstat it returns
Fstat_from_record(record_data, record_code) ==
    LET loop == Fstat_from_record_loop(record_data, <<>>)
    IN  IF record_code /= "f" THEN Raised("ValueError")
        ELSE IF loop.kind = "raised" THEN loop
        ELSE IF loop.records = <<>> THEN Raised("IndexError")
        ELSE IF Head(loop.records).type /= "FileTOD" THEN Raised("ValueError")
        ELSE [kind |-> "Fstat", lead |-> Head(loop.records), records |-> Tail(loop.records)]

\* the high order bit of a mark of the r stream is set: for all marks but
\* that of a WindowMark
RedirHighBit(redir_type) == redir_type /= "REDTIME"

\* Burr._record_dispatch, keyed by the members of XROOTD_MON
Burr_record_dispatch ==
    ("REDIRECT" :> "Redirect") @@ ("REDLOCAL" :> "Redirect")
    @@ ("REDTIME" :> "WindowMark") @@ ("REDSID" :> "ServerIdent")

\* the while loop of Burr.from_record
RECURSIVE Burr_from_record_loop(_, _)
Burr_from_record_loop(record_view, records) ==
    IF record_view = <<>> THEN [kind |-> "records", records |-> records]
    ELSE LET redir_type == Head(record_view).mark
             payload_type == IF RedirHighBit(redir_type) THEN Burr_record_dispatch[redir_type]
                             ELSE "WindowMark"
         IN  IF RedirHighBit(redir_type) /\ redir_type \notin DOMAIN Burr_record_dispatch
             THEN Raised("ValueError")
             ELSE Burr_from_record_loop(
                     Tail(record_view),
                     Append(records, Record_from_buffer(payload_type, Head(record_view))))

\* Burr.__init__; lead is the sid of the Burr
Burr_init(sid, records) ==
    IF records = <<>> THEN Raised("IndexError")
    ELSE IF records[1].type /= "WindowMark" \/ records[Len(records)].type /= "WindowMark"
    THEN Raised("ValueError")
    ELSE [kind |-> "Burr", lead |-> sid, records |-> records]

\* Burr.from_record
Burr_from_record(record_data, record_code) ==
    LET loop == Burr_from_record_loop(record_data, <<>>)
    IN  IF record_code /= "r" THEN Raised("ValueError")
        ELSE IF loop.kind = "raised" THEN loop
        ELSE IF loop.records = <<>> THEN Raised("IndexError")
        ELSE IF Head(loop.records).type /= "ServerIdent" THEN Raised("ValueError")
        ELSE Burr_init(Head(loop.records), Tail(loop.records))

\* Packet.from_buffer hands the body of a packet of code b'f' to Fstat
decode_fstat ==
    /\ record_body.code = "f"
    /\ record_result = NoResult
    /\ record_result' = Fstat_from_record(record_body.records, record_body.code)
    /\ UNCHANGED <<record_body, reader_vars, userid_vars, body_vars>>
    /\ UNCHANGED <<pseq_vars, stream_vars, store_vars, mapper_vars>>

\* Packet.from_buffer hands the body of a packet of code b'r' to Burr
decode_burr ==
    /\ record_body.code = "r"
    /\ record_result = NoResult
    /\ record_result' = Burr_from_record(record_body.records, record_body.code)
    /\ UNCHANGED <<record_body, reader_vars, userid_vars, body_vars>>
    /\ UNCHANGED <<pseq_vars, stream_vars, store_vars, mapper_vars>>

\* ---- the bodies handed to from_record

\* longest body, in records
MaxBodyRecords == 3

\* records of a f stream body: FileTOD, FileDSC, FileOPN, FileCLS, FileXFR,
\* and one with a mark that is no recType
FstatRecordData ==
    {RecordData(2, [start |-> 10, end |-> 20, sid |-> 1]),
     RecordData(4, [dictid |-> 1]),
     RecordData(1, [fileid |-> 1]),
     RecordData(0, [fileid |-> 1]),
     RecordData(3, [fileid |-> 1]),
     RecordData(5, [fileid |-> 1])}

\* records of a r stream body: ServerIdent, WindowMark, the two kinds of
\* Redirect, and one with a mark of no record type
BurrRecordData ==
    {RecordData("REDSID", [sid |-> 1]),
     RecordData("REDTIME", [prev_duration |-> 60, timestamp |-> 100]),
     RecordData("REDIRECT", [dictid |-> 1]),
     RecordData("REDLOCAL", [dictid |-> 1]),
     RecordData("REDOTHER", [dictid |-> 1])}

RecordBodies ==
    {[code |-> "f", records |-> records] : records \in SeqsUpTo(FstatRecordData, MaxBodyRecords)}
    \cup
    {[code |-> "r", records |-> records] : records \in SeqsUpTo(BurrRecordData, MaxBodyRecords)}

-----------------------------------------------------------------------------
(* UserId.from_buffer: structs/XrdXrootdMon/map.py.  A bytes object is a   *)
(* sequence of one-character strings.                                      *)

Digits == <<"0", "1", "2", "3", "4", "5", "6", "7", "8", "9">>

\* the value of a decimal digit, or -1
DigitValue(char) ==
    IF \E d \in 1 .. 10 : Digits[d] = char
    THEN (CHOOSE d \in 1 .. 10 : Digits[d] = char) - 1
    ELSE -1

\* int(b'...') of a run of decimal digits; -1 stands for its ValueError
RECURSIVE ParseInt(_)
ParseInt(chars) ==
    IF chars = <<>> THEN -1
    ELSE LET last == DigitValue(chars[Len(chars)])
             front == IF Len(chars) = 1 THEN 0 ELSE ParseInt(SubSeq(chars, 1, Len(chars) - 1))
         IN  IF last < 0 \/ front < 0 THEN -1 ELSE front * 10 + last

\* bytes.rsplit(sep) without maxsplit: the pieces between ALL occurrences of
\* the separator, in order
RECURSIVE RSplit(_, _)
RSplit(chars, sep) ==
    IF \A i \in 1 .. Len(chars) : chars[i] /= sep THEN <<chars>>
    ELSE LET last == CHOOSE i \in 1 .. Len(chars) :
                        chars[i] = sep /\ \A j \in (i + 1) .. Len(chars) : chars[j] /= sep
         IN  Append(RSplit(SubSeq(chars, 1, last - 1), sep),
                    SubSeq(chars, last + 1, Len(chars)))

\* UserId.__init__
UserId(prot, user, pid, sid, host) ==
    [kind |-> "UserId", prot |-> prot, user |-> user, pid |-> pid, sid |-> sid, host |-> host]

\* UserId.from_buffer: each  a, b = x.rsplit(sep)  raises ValueError unless
\* the split gives exactly two pieces
UserId_from_buffer(data) ==
    LET at == RSplit(data, "@")
        colon == RSplit(at[1], ":")
        dot == RSplit(colon[1], ".")
        slash == RSplit(dot[1], "/")
    IN  IF Len(at) /= 2 THEN Raised("ValueError")
        ELSE IF Len(colon) /= 2 THEN Raised("ValueError")
        ELSE IF Len(dot) /= 2 THEN Raised("ValueError")
        ELSE IF Len(slash) /= 2 THEN Raised("ValueError")
        ELSE IF ParseInt(dot[2]) < 0 \/ ParseInt(colon[2]) < 0 THEN Raised("ValueError")
        ELSE UserId(slash[1], slash[2], ParseInt(dot[2]), ParseInt(colon[2]), at[2])

\* one call of UserId.from_buffer on the bytes handed over
parse_userid ==
    /\ userid_result = NoResult
    /\ userid_result' = UserId_from_buffer(userid_buffer)
    /\ UNCHANGED <<userid_buffer, reader_vars, record_vars, body_vars>>
    /\ UNCHANGED <<pseq_vars, stream_vars, store_vars, mapper_vars>>

\* ---- the userid strings from_buffer is run on

\* longest user name enumerated
MaxUserLen == 3

\* the decimal digits of a natural number
RECURSIVE DecimalOf(_)
DecimalOf(n) ==
    IF n < 10 THEN <<Digits[n + 1]>>
    ELSE Append(DecimalOf(n \div 10), Digits[(n % 10) + 1])

\* prot/user.pid:sid@host
UserIdBytes(prot, user, pid, sid, host) ==
    prot \o <<"/">> \o user \o <<".">> \o DecimalOf(pid) \o <<":">> \o DecimalOf(sid)
         \o <<"@">> \o host

\* user names of letters and dots
UserNames ==
    UNION {[1 .. n -> {"u", "."}] : n \in 1 .. MaxUserLen}

UserHosts == {<<"h">>, <<"h", ".", "d">>, <<"[", ":", ":", "1", "]">>}

UserPids == {0, 7, 4025}

UserSids == {1, 30}

UserIdFields ==
    {[prot |-> <<"x">>, user |-> user, pid |-> pid, sid |-> sid, host |-> host] :
        user \in UserNames, pid \in UserPids, sid \in UserSids, host \in UserHosts}

-----------------------------------------------------------------------------
(* The decoding loop of Fstat.from_record over the bytes of a record body: *)
(* structs/XrdXrootdMon/__init__.py and fstat.py.  record_view is always a *)
(* tail of record_data, so it is kept as its offset body_pos.              *)

\* struct sizes: '!B B h h h l l q', '!B B h L', '!B B h L q',
\* '!B B h L q q q' (FileCLS and FileXFR), '!3l h h q 6l', '!4q'
FileTOD_size == 24
FileDSC_size == 8
FileOPN_static_size == 16
FileCLS_static_size == 32
FileXFR_size == 32
StatOPS_size == 48
StatSSQ_size == 32

\* recFval
recFval_hasLFN == 1
recFval_hasOPS == 2
recFval_hasSSQ == 4

\* rec_flag & flag, for a flag of one bit
FlagSet(rec_flag, flag) == (rec_flag \div flag) % 2 = 1

\* the 'h' field at bytes 2 and 3 of a record: big-endian, signed
RecSizeAt(data, pos) ==
    LET raw == data[pos + 3] * 256 + data[pos + 4]
    IN  IF raw >= 32768 THEN raw - 65536 ELSE raw

\* the offset of  record_view[size:]  for a view that starts at pos
ViewAfter(data, pos, size) ==
    IF size >= 0
    THEN (IF pos + size > Len(data) THEN Len(data) ELSE pos + size)
    ELSE (IF Len(data) + size < pos THEN pos ELSE Len(data) + size)

\* a record was decoded and the view moved on
Decoded(type, pos) == [kind |-> "record", type |-> type, pos |-> pos]

\* FileTOD.from_buffer, FileDSC.from_buffer, FileXFR.from_buffer: a record
\* of fixed length, whose size attribute is the size of its struct
Fixed_from_buffer(type, size, data, pos) ==
    IF Len(data) - pos < size THEN Raised("struct.error")
    ELSE IF RecSizeAt(data, pos) /= size THEN Raised("AssertionError")
    ELSE Decoded(type, ViewAfter(data, pos, size))

\* FileOPN.from_buffer: the size attribute is the rec_size of the record
FileOPN_from_buffer(data, pos) ==
    IF Len(data) - pos < FileOPN_static_size THEN Raised("struct.error")
    ELSE Decoded("FileOPN", ViewAfter(data, pos, RecSizeAt(data, pos)))

\* FileCLS.from_buffer: the size attribute is the rec_size of the record
FileCLS_from_buffer(data, pos) ==
    LET rec_flag == data[pos + 2]
        rec_size == RecSizeAt(data, pos)
        left == Len(data) - pos
    IN  IF left < FileCLS_static_size THEN Raised("struct.error")
        ELSE IF FlagSet(rec_flag, recFval_hasOPS)
        THEN IF left - FileCLS_static_size < StatOPS_size THEN Raised("struct.error")
             ELSE IF /\ FlagSet(rec_flag, recFval_hasSSQ)
                     /\ left - FileCLS_static_size - StatOPS_size < StatSSQ_size
             THEN Raised("struct.error")
             ELSE Decoded("FileCLS", ViewAfter(data, pos, rec_size))
        ELSE IF rec_size /= FileCLS_static_size THEN Raised("AssertionError")
        ELSE Decoded("FileCLS", ViewAfter(data, pos, rec_size))

\* payload_type.from_buffer(record_view) and  record_view[record.size:]
Fstat_decode_at(data, pos) ==
    LET redir_type == data[pos + 1]
    IN  IF redir_type \notin DOMAIN Fstat_payload_dispatch THEN Raised("ValueError")
        ELSE LET payload_type == Fstat_payload_dispatch[redir_type]
             IN  CASE payload_type = "FileTOD" -> Fixed_from_buffer("FileTOD", FileTOD_size, data, pos)
                   [] payload_type = "FileDSC" -> Fixed_from_buffer("FileDSC", FileDSC_size, data, pos)
                   [] payload_type = "FileXFR" -> Fixed_from_buffer("FileXFR", FileXFR_size, data, pos)
                   [] payload_type = "FileOPN" -> FileOPN_from_buffer(data, pos)
                   [] payload_type = "FileCLS" -> FileCLS_from_buffer(data, pos)

\* how often the loop is followed
MaxDecoded == 4

\* one test of  while record_view:  and, unless it ends the loop, one round
\* of the loop; after the loop the check of records[0]
fstat_body_step ==
    /\ body_result = NoResult
    /\ Len(body_records) < MaxDecoded
    /\ IF body_pos >= Len(body_bytes)
       THEN /\ body_result' =
                  IF body_records = <<>> THEN Raised("IndexError")
                  ELSE IF body_records[1] /= "FileTOD" THEN Raised("ValueError")
                  ELSE [kind |-> "Fstat"]
            /\ UNCHANGED <<body_pos, body_records>>
       ELSE LET r == Fstat_decode_at(body_bytes, body_pos)
            IN  IF r.kind = "raised"
                THEN /\ body_result' = r
                     /\ UNCHANGED <<body_pos, body_records>>
                ELSE /\ body_records' = Append(body_records, r.type)
                     /\ body_pos' = r.pos
                     /\ UNCHANGED body_result
    /\ UNCHANGED <<body_bytes, reader_vars, record_vars, userid_vars>>
    /\ UNCHANGED <<pseq_vars, stream_vars, store_vars, mapper_vars>>

\* ---- the record bodies the loop is run on

\* number of records written to a body
MaxBodyParts == 2

\* size bytes of zero
Zeros(size) == [i \in 1 .. size |-> 0]

\* a record of the f stream as bytes: type, flags, rec_size, and zeros for
\* the other fields, length bytes in all
FstatRecordBytes(rec_type, rec_flag, rec_size, length) ==
    <<rec_type, rec_flag, ((rec_size + 65536) % 65536) \div 256, (rec_size + 65536) % 256>>
    \o Zeros(length - 4)

\* the records a server writes, and FileOPN and FileCLS records that declare
\* a rec_size of zero or below
FstatBodyParts ==
    {FstatRecordBytes(2, 0, 24, 24),
     FstatRecordBytes(4, 0, 8, 8),
     FstatRecordBytes(3, 0, 32, 32),
     FstatRecordBytes(1, 0, 16, 16),
     FstatRecordBytes(1, 1, 24, 24),
     FstatRecordBytes(0, 0, 32, 32),
     FstatRecordBytes(0, 2, 80, 80),
     FstatRecordBytes(1, 0, 0, 16),
     FstatRecordBytes(1, 0, -8, 16),
     FstatRecordBytes(0, 2, 0, 80)}

FstatBodies ==
    {Concat(parts) : parts \in SeqsUpTo(FstatBodyParts, MaxBodyParts)}

-----------------------------------------------------------------------------
(* The specifications *)

InitPSeq ==
    /\ cmp_a \in PSeqValues
    /\ cmp_b \in PSeqValues
    /\ cmp_c = 0
    /\ cmp_res = [done |-> FALSE]
    /\ StreamIdle
    /\ StoreIdle
    /\ MapperIdle
    /\ DecodeIdle

NextPSeq == \E c \in PSeqProbe : ComparePSeq(c)

SpecPSeq == InitPSeq /\ [][NextPSeq]_vars

InitStream ==
    /\ \E sc \in StreamScenarios :
          /\ sort_window = sc.W
          /\ packet_source = [i \in 1 .. Len(sc.arr) |-> Packet(sc.arr[i], sc.s0)]
    /\ read_pos = 0
    /\ buffer = <<>>
    /\ emitted = <<>>
    /\ gen_pc = "start"
    /\ raised = "none"
    /\ PSeqIdle
    /\ StoreIdle
    /\ MapperIdle
    /\ DecodeIdle

NextStream ==
    \/ stream_start
    \/ stream_resume
    \/ stream_drain

SpecStream == InitStream /\ [][NextStream]_vars

InitStore ==
    /\ StoreConstructed
    /\ PSeqIdle
    /\ StreamIdle
    /\ MapperIdle
    /\ DecodeIdle

NextStore ==
    \/ \E stod \in StodValues, sid \in SidValues :
          digest_map_server(stod, 0, UserIdOf(sid), SrvInfoOf(1094))
    \/ \E stod \in StodValues, dictid \in DictIds, sid \in SidValues :
          digest_map_auth(stod, dictid, UserIdOf(sid), [protocol |-> "gsi"])
    \/ \E stod \in StodValues, dictid \in DictIds, sid \in SidValues :
          digest_map_path(stod, dictid, UserIdOf(sid), "/lfn")
    \/ \E stod \in StodValues, dictid \in DictIds : free_user(stod, dictid)
    \/ \E stod \in StodValues, dictid \in DictIds : free_access(stod, dictid)
    \/ add_deletion_append
    \/ store_release
    \/ cleaner_stop
    \/ cleaner_swap
    \/ cleaner_wake
    \/ cleaner_drain
    \/ cleaner_sleep_end
    \/ Tick

SpecStore == InitStore /\ [][NextStore]_vars

\* the mapper as the pipeline drives it, between two runs of the cleaner
InitMapper ==
    /\ StoreConstructed
    /\ MapperIdle
    /\ DecodeIdle
    /\ PSeqIdle
    /\ StreamIdle

NextMapper ==
    \/ \E value \in MapPackets : process_map(value)
    \/ \E value \in FstatPackets : process_fstat(value)
    \/ \E value \in TracePackets : process_trace(value)
    \/ \E value \in RedirPackets : process_redir(value)
    \/ \E value \in PluginPackets : process_plugin(value)

SpecMapper == InitMapper /\ [][NextMapper]_vars

\* a source holding the packets written to it, or all but their last bytes
InitReader ==
    /\ \E written \in SeqsUpTo(WrittenPackets, MaxSourcePackets) :
          \E cut \in 0 .. Len(Concat(written)) :
             /\ byte_written = written
             /\ byte_source = SubSeq(Concat(written), 1, Len(Concat(written)) - cut)
    /\ byte_pos = 0
    /\ reader_result = NoResult
    /\ reader_count = 0
    /\ RecordsIdle
    /\ UserIdIdle
    /\ BodyIdle
    /\ PSeqIdle
    /\ StreamIdle
    /\ StoreIdle
    /\ MapperIdle

NextReader == read_packet

SpecReader == InitReader /\ [][NextReader]_vars

\* a userid string written from its five fields
InitUserId ==
    /\ \E f \in UserIdFields :
          userid_buffer = UserIdBytes(f.prot, f.user, f.pid, f.sid, f.host)
    /\ userid_result = NoResult
    /\ ReaderIdle
    /\ RecordsIdle
    /\ BodyIdle
    /\ PSeqIdle
    /\ StreamIdle
    /\ StoreIdle
    /\ MapperIdle

NextUserId == parse_userid

SpecUserId == InitUserId /\ [][NextUserId]_vars

\* a record body handed to Fstat.from_record
InitFstatBody ==
    /\ body_bytes \in FstatBodies
    /\ body_pos = 0
    /\ body_records = <<>>
    /\ body_result = NoResult
    /\ ReaderIdle
    /\ RecordsIdle
    /\ UserIdIdle
    /\ PSeqIdle
    /\ StreamIdle
    /\ StoreIdle
    /\ MapperIdle

NextFstatBody == fstat_body_step

SpecFstatBody == InitFstatBody /\ [][NextFstatBody]_vars

InitRecords ==
    /\ record_body \in RecordBodies
    /\ record_result = NoResult
    /\ ReaderIdle
    /\ UserIdIdle
    /\ BodyIdle
    /\ PSeqIdle
    /\ StreamIdle
    /\ StoreIdle
    /\ MapperIdle

NextRecords ==
    \/ decode_fstat
    \/ decode_burr

SpecRecords == InitRecords /\ [][NextRecords]_vars

-----------------------------------------------------------------------------
(* Properties of stream_packets, checked under SpecStream *)

Terminated == gen_pc \in {"done", "raised"}

\* every packet of the source is in s exactly once
EachPacketOnce(s) ==
    /\ Len(s) = Len(packet_source)
    /\ \A i \in 1 .. Len(packet_source) : \E j \in 1 .. Len(s) : s[j] = packet_source[i]

\* C1: with a valid sort_window W, a source of at least W packets none of
\* which arrives more than W-1 positions away from its sender position is
\* emitted in sender order, the wrap of pseq from 255 to 0 included.
ReorderBounded ==
    (Terminated /\ ValidWindow /\ Len(packet_source) >= sort_window
        /\ OutOfOrderDistance(sort_window - 1))
    => (gen_pc = "done" /\ emitted = SenderOrder)

\* C4: whatever the number of packets in the source, the generator ends
\* without an exception and has then emitted every packet exactly once; the
\* buffer left at exhaustion is drained in ascending order.
ExhaustionDrainsCleanly ==
    /\ (Terminated /\ ValidWindow) =>
          (gen_pc = "done" /\ raised = "none" /\ EachPacketOnce(emitted))
    /\ gen_pc = "draining" =>
          \A i, j \in 1 .. Len(buffer) : i < j => ~IsLt(buffer[i], buffer[j])

\* the source of 16 packets arriving as 8..15, 0..7
RotatedArrival == [i \in 1 .. 16 |-> (i + 7) % 16]

\* C5, as claimed: pseq 8..15, 0..7 with sort_window = 8 comes out as 0..15
RotatedStreamSenderOrder ==
    (gen_pc = "done" /\ PSeqsOf(packet_source) = RotatedArrival /\ sort_window = 8)
    => PSeqsOf(emitted) = [i \in 1 .. 16 |-> i - 1]

\* C5, amended: pseq 8..15, 0..7 with sort_window = 8 comes out as
\* 8, 0, 1, ..., 7, 9, ..., 15, because 8 is the smallest of the first eight
\* packets; with sort_window = 9 it comes out as 0..15.
RotatedStreamDelivery ==
    (gen_pc = "done" /\ PSeqsOf(packet_source) = RotatedArrival)
    => /\ sort_window = 8 =>
             PSeqsOf(emitted) = <<8>> \o [i \in 1 .. 8 |-> i - 1] \o [i \in 1 .. 7 |-> i + 8]
       /\ sort_window = 9 =>
             PSeqsOf(emitted) = [i \in 1 .. 16 |-> i - 1]

RotatedStreamDelivered ==
    /\ gen_pc = "done"
    /\ PSeqsOf(packet_source) = RotatedArrival
    /\ sort_window = 8
    /\ Len(emitted) = 16

\* C6: a source of exactly the packets 255, 0, 1 is delivered as 255, 0, 1
\* for every valid sort_window, the default included.
WrapInOrderDelivery ==
    (Terminated /\ ValidWindow /\ PSeqsOf(packet_source) = <<255, 0, 1>>)
    => (gen_pc = "done" /\ PSeqsOf(emitted) = <<255, 0, 1>>)

\* C7: a source of the packets 0, 255, 1 is delivered with sort_window = 2
\* as 255, 0, 1.
WrapSwappedDelivery ==
    (Terminated /\ sort_window = 2 /\ PSeqsOf(packet_source) = <<0, 255, 1>>)
    => (gen_pc = "done" /\ PSeqsOf(emitted) = <<255, 0, 1>>)

WrapSwappedDelivered ==
    /\ gen_pc = "done"
    /\ sort_window = 2
    /\ PSeqsOf(packet_source) = <<0, 255, 1>>
    /\ Len(emitted) = 3

\* C26: stream_packets accepts exactly the sort_window values from 1 to 127;
\* with sort_window <= 0 or sort_window >= 128 it ends with an AssertionError
\* before it has read a packet from the source or emitted one.
SortWindowAsserted ==
    /\ (gen_pc /= "start" /\ (sort_window <= 0 \/ sort_window >= 128))
          => /\ raised = "AssertionError"
             /\ read_pos = 0
             /\ buffer = <<>>
             /\ emitted = <<>>
    /\ (1 <= sort_window /\ sort_window < 128) => raised /= "AssertionError"

\* a generator over a source that holds packets ended at the assertion
\* because its sort_window is one above the largest valid one
OversizedWindowRejected ==
    /\ sort_window = 128
    /\ Len(packet_source) = 3
    /\ gen_pc = "raised"
    /\ raised = "AssertionError"
    /\ read_pos = 0

-----------------------------------------------------------------------------
(* Properties of PSeq, checked under SpecPSeq *)

\* a, b and c lie inside one window of width consecutive sequence numbers
InOneWindow(a, b, c, width) ==
    \E start \in PSeqValues :
        \A x \in {a, b, c} : (x - start) % PSeqRange < width

\* C2: inside every window of 128 consecutive sequence numbers modulo 256
\* the comparator is antisymmetric and transitive.
ComparatorOrdersHalfRange ==
    (cmp_res.done /\ InOneWindow(cmp_a, cmp_b, cmp_c, PSeqRange \div 2))
    => /\ ~(cmp_res.lt_ab /\ cmp_res.lt_ba)
       /\ (cmp_res.lt_ab /\ cmp_res.lt_bc) => cmp_res.lt_ac

\* the comparator as the claim words it
ReferenceGt(a, b) ==
    IF a \in 0 .. 63 /\ b \in 191 .. 255 THEN TRUE
    ELSE IF b \in 0 .. 63 /\ a \in 191 .. 255 THEN FALSE
    ELSE a > b

\* C3: for all a, b in 0..255, > and < are the reference comparator (a low
\* value in 0..63 is greater than a high one in 191..255, integer order
\* otherwise), a < b holds exactly when b > a, and == is integer equality.
ComparatorMatchesReference ==
    cmp_res.done =>
       /\ cmp_res.gt_ab = ReferenceGt(cmp_a, cmp_b)
       /\ cmp_res.lt_ab = ReferenceGt(cmp_b, cmp_a)
       /\ cmp_res.lt_ab = cmp_res.gt_ba
       /\ cmp_res.lt_ba = cmp_res.gt_ab
       /\ cmp_res.eq_ab = (cmp_a = cmp_b)

WrappedPairCompared ==
    /\ cmp_res.done
    /\ cmp_a = 0 /\ cmp_b = 191
    /\ cmp_res.gt_ab /\ cmp_res.lt_ba

-----------------------------------------------------------------------------
(* Properties of MapInfoStore and its cleaner, checked under SpecStore *)

\* C8: an id freed at clock reading t0 stays resolvable at every reading
\* earlier than t0 + clean_delay.
DeferredEviction ==
    \A id \in FreeIds :
        (freed_at[id] >= 0 /\ now < freed_at[id] + CleanDelay) => Resolvable(id)

\* C9: free_user and free_access leave the server, user and access tables
\* as they are; an id that get_user/get_access returned before the call is
\* still returned when the call has returned.
FreeOnlyEnqueues ==
    [][(pipe_pc' /= pipe_pc) =>
          /\ server_info' = server_info
          /\ user_info' = user_info
          /\ access_info' = access_info
          /\ \A id \in FreeIds : Resolvable(id) => Resolvable(id)']_vars

FreedIdStillResolvable ==
    /\ pipe_pc = "idle"
    /\ \E id \in FreeIds :
          /\ Resolvable(id)
          /\ freed_at[id] >= 0
          /\ \E i \in 1 .. Len(deletion_queue) :
                <<deletion_queue[i].table, deletion_queue[i].key>> = id

\* C10: the deletions an eviction tick has executed were all enqueued before
\* the queue swap of that tick.
TickRunsOnlyEarlierDeletions ==
    cleaner_pc \in {"drain", "sleep_long"} =>
        \A i \in 1 .. cleaner_idx : ~swapped_queue[i].late

\* the key of the server table under which a ServerInfo was installed
ServerKey(server) == <<server.stod, server.sid>>

\* C29: in every reachable state of the store, each UserInfo of the user
\* table and each PathAccessInfo of the access table refers to a ServerInfo
\* whose key (stod, sid) is in the server table: no server is evicted before
\* the users and accesses that refer to it.
ServersOutliveReferrers ==
    /\ \A key \in DOMAIN user_info : ServerKey(user_info[key].server) \in DOMAIN server_info
    /\ \A key \in DOMAIN access_info : ServerKey(access_info[key].server) \in DOMAIN server_info

\* the cleaner has evicted a freed user while an access entry still refers
\* to the server of both, which is still in the server table
EvictionLeftReferrer ==
    \E key \in DOMAIN access_info :
        /\ freed_at[<<"user", key>>] >= 0
        /\ key \notin DOMAIN user_info
        /\ ServerKey(access_info[key].server) \in DOMAIN server_info

\* C30: every deletion enqueued by free_user/free_access is executed by the
\* cleaner and none is lost under any interleaving of add_deletion with the
\* queue swap: once the for loop of run() over a swapped-out list has ended,
\* every deletion add_deletion has appended to that list has been executed.
\* (A deletion that is on no list the cleaner will iterate again is never
\* executed, so the freed id stays in the store for good.)
NoDeletionLost ==
    cleaner_pc \in {"sleep_long", "swap"} => cleaner_idx = Len(swapped_queue)

\* C34: the cleaner thread stops once its store is gone, and only then: when
\* the store no longer exists the next test of the while loop of run() ends
\* the thread, so that no cleaning cycle is started after the one that was
\* running; while the store exists the thread never stops.
CleanerStopsWithStore ==
    [][/\ (cleaner_pc = "swap" /\ ~ParentAlive) => cleaner_pc' \in {"swap", "stopped"}
       /\ ~ParentAlive => swapped_queue' = swapped_queue
       /\ (ParentAlive /\ ParentAlive') => cleaner_pc' /= "stopped"
       /\ cleaner_pc = "stopped" => cleaner_pc' = "stopped"]_vars

\* the store was released in the middle of a cleaning cycle that had a
\* deletion to run, and the cleaner has stopped after that cycle
CleanerStoppedAfterCycle ==
    /\ cleaner_pc = "stopped"
    /\ ~ParentAlive
    /\ swapped_queue /= <<>>
    /\ cleaner_idx = Len(swapped_queue)
    /\ now >= terminate_at

\* C35: a deferred deletion removes only the entry that was freed: an entry
\* installed under (stod, id) after the last free_user/free_access of that
\* id is still resolvable whatever pending deletions the cleaner executes.
DeletionSparesNewEntry ==
    \A id \in fresh : Resolvable(id)

-----------------------------------------------------------------------------
(* Properties of StreamMapper and the digesters, checked under SpecMapper *)

\* C11: when digest_map has ingested a SrvInfo whose (host, port) is that of
\* an earlier SrvInfo with another sid, the new ServerInfo is in the server
\* table at its own (stod, sid) and a deletion of the earlier server's
\* (stod, sid) entry has been scheduled.
SupersededServerScheduled ==
    (mapper_packet.code = "map" /\ mapper_packet.record.payload_type = "SrvInfo") =>
        LET new == <<mapper_packet.header.stod, mapper_packet.record.userid.sid>>
        IN  /\ new \in DOMAIN server_info
            /\ \A old \in DOMAIN server_info \ {new} :
                  (/\ server_info[old].host = server_info[new].host
                   /\ server_info[old].port = server_info[new].port)
                  => \E i \in 1 .. Len(deletion_queue) :
                        /\ deletion_queue[i].table = "server"
                        /\ deletion_queue[i].key = old

\* C12: StreamMapper never surfaces a MapInfoError; a Burr packet whose
\* ServerIdent names a server absent from the store yields no event and no
\* error.
RedirUnknownServerDropped ==
    /\ mapper_raised /= "MapInfoError"
    /\ (/\ mapper_packet.code = "redir"
        /\ ~HasServer(mapper_packet.header.stod, mapper_packet.record.sid.sid))
       => (mapper_out = <<>> /\ mapper_raised = "none")

\* the (stod, sid) a Fstat packet names in its FileTOD, a Buff packet in its
\* first Window
NamedServer(value) ==
    <<value.header.stod,
      IF value.code = "fstat" THEN value.record.tod.sid
      ELSE Head(value.record.records).sid>>

\* C13: a Fstat or Buff packet that names a (stod, sid) absent from the store
\* emits nothing, raises nothing, and leaves the tables and the deletion
\* queue as they were; the mapper takes the next packet.
UnknownServerPacketDropped ==
    [][(/\ mapper_count' = mapper_count + 1
        /\ mapper_packet'.code \in {"fstat", "trace"}
        /\ NamedServer(mapper_packet') \notin DOMAIN server_info)
       => /\ mapper_out' = <<>>
          /\ mapper_raised' = "none"
          /\ UNCHANGED <<server_info, user_info, access_info, server_lifetime,
                         deletion_queue, swapped_queue>>]_vars

\* a second packet, holding records, was dropped for its unknown server
UnknownServerPacketWasDropped ==
    /\ mapper_count = 2
    /\ mapper_packet.code \in {"fstat", "trace"}
    /\ NamedServer(mapper_packet) \notin DOMAIN server_info
    /\ Len(mapper_packet.record.records) >= 3
    /\ mapper_out = <<>>
    /\ mapper_raised = "none"

\* the step hands a Fstat packet whose server resolves to the mapper
FstatStep ==
    /\ mapper_count' = mapper_count + 1
    /\ mapper_packet'.code = "fstat"
    /\ NamedServer(mapper_packet') \in DOMAIN server_info

\* the dictids of a stod that a table resolves
KnownIds(table, stod) == {key[2] : key \in {k \in DOMAIN table : k[1] = stod}}

\* the event a Fstat record stands for
FstatEventOf(type) ==
    CASE type = "FileDSC" -> "fstat.Disconnect"
      [] type = "FileOPN" -> "fstat.Open"
      [] type = "FileCLS" -> "fstat.Close"
      [] type = "FileXFR" -> "fstat.Transfer"

\* the store lookup a Fstat record needs succeeds, users and files being the
\* user dictids and the file ids that resolve when the record is reached
FstatLookupSucceeds(record, users, files) ==
    CASE record.type = "FileDSC" -> record.dictid \in users
      [] record.type = "FileOPN" ->
            IF record.hasLFN THEN record.user <= 0 \/ record.user \in users
            ELSE record.fileid \in files
      [] record.type \in {"FileCLS", "FileXFR"} -> record.fileid \in files

\* the events of the records that survive, in packet order; an inline open
\* that survives makes its file id resolve for the records after it
RECURSIVE FstatSurvivors(_, _, _)
FstatSurvivors(records, users, files) ==
    IF records = <<>> THEN <<>>
    ELSE LET record == Head(records)
             ok == FstatLookupSucceeds(record, users, files)
             installed == IF ok /\ record.type = "FileOPN" /\ record.hasLFN
                          THEN files \cup {record.fileid}
                          ELSE files
         IN  (IF ok THEN <<FstatEventOf(record.type)>> ELSE <<>>)
             \o FstatSurvivors(Tail(records), users, installed)

EventsOf(records) == [i \in 1 .. Len(records) |-> records[i].event]

\* C14: for a Fstat packet whose server resolves, the records whose lookup
\* fails are dropped one by one; the FstatWindow emitted carries the start,
\* the end and the ServerInfo of the packet and the surviving records in
\* packet order; nothing is emitted when no record survives.
FstatWindowHoldsSurvivors ==
    [][FstatStep =>
          LET fstat_struct == mapper_packet'.record
              stod == mapper_packet'.header.stod
              expected == FstatSurvivors(fstat_struct.records, KnownIds(user_info, stod),
                                         KnownIds(access_info, stod))
          IN  /\ mapper_raised' = "none"
              /\ IF expected = <<>> THEN mapper_out' = <<>>
                 ELSE /\ Len(mapper_out') = 1
                      /\ mapper_out'[1].event = "FstatWindow"
                      /\ mapper_out'[1].start = fstat_struct.tod.start
                      /\ mapper_out'[1].end = fstat_struct.tod.end
                      /\ mapper_out'[1].server_info = server_info[NamedServer(mapper_packet')]
                      /\ EventsOf(mapper_out'[1].records) = expected]_vars

\* of two records of a packet the first was dropped and the second emitted
FstatRecordDroppedAlone ==
    /\ mapper_packet.code = "fstat"
    /\ Len(mapper_packet.record.records) = 2
    /\ mapper_out /= <<>>
    /\ EventsOf(mapper_out[1].records) = <<FstatEventOf(mapper_packet.record.records[2].type)>>
    /\ mapper_packet.record.records[1].type /= mapper_packet.record.records[2].type

\* the step hands the mapper a Fstat packet, server resolving, that holds
\* one FileOPN with inline user and LFN for a file id without access entry
InlineOpenStep ==
    /\ FstatStep
    /\ Len(mapper_packet'.record.records) = 1
    /\ mapper_packet'.record.records[1].type = "FileOPN"
    /\ mapper_packet'.record.records[1].hasLFN
    /\ ~HasAccess(mapper_packet'.header.stod, mapper_packet'.record.records[1].fileid)

\* the mapper emitted one FstatWindow holding one Open with the inline LFN
InlineOpenEmitted(out, record) ==
    /\ Len(out) = 1
    /\ EventsOf(out[1].records) = <<"fstat.Open">>
    /\ out[1].records[1].lfn = record.lfn
    /\ out[1].records[1].client.path = record.lfn

\* C15 as claimed: such a FileOPN yields an Open with the inline LFN for
\* every inline user dictid, known to the store or not.
InlineOpenAlwaysYieldsOpen ==
    [][InlineOpenStep => InlineOpenEmitted(mapper_out', mapper_packet'.record.records[1])]_vars

\* C15 as amended: such a FileOPN yields an Open with the inline LFN when its
\* user dictid is 0 (the client is then null) or names a user of the store
\* (the client is then that user's); the access entry is installed.  When
\* the dictid names no user, the record is dropped and nothing is installed.
InlineOpenYieldsOpenForResolvableUser ==
    [][InlineOpenStep =>
          LET record == mapper_packet'.record.records[1]
              stod == mapper_packet'.header.stod
          IN  IF record.user > 0 /\ ~HasUser(stod, record.user)
              THEN mapper_out' = <<>> /\ access_info' = access_info
              ELSE /\ InlineOpenEmitted(mapper_out', record)
                   /\ access_info'[<<stod, record.fileid>>] = mapper_out'[1].records[1].client
                   /\ mapper_out'[1].records[1].client.client =
                         IF record.user > 0 THEN user_info[<<stod, record.user>>].client
                         ELSE None]_vars

\* an inline open without user produced an Open whose client is null
InlineOpenWithNullClient ==
    /\ mapper_packet.code = "fstat"
    /\ Len(mapper_packet.record.records) = 1
    /\ mapper_packet.record.records[1].type = "FileOPN"
    /\ mapper_packet.record.records[1].hasLFN
    /\ mapper_packet.record.records[1].user = 0
    /\ InlineOpenEmitted(mapper_out, mapper_packet.record.records[1])
    /\ mapper_out[1].records[1].client.client = None

\* the step hands the mapper a Fstat packet, server resolving, that holds a
\* FileOPN with inline user and LFN, then a FileCLS for the same file id
OpenCloseStep ==
    /\ FstatStep
    /\ Len(mapper_packet'.record.records) = 2
    /\ mapper_packet'.record.records[1].type = "FileOPN"
    /\ mapper_packet'.record.records[1].hasLFN
    /\ mapper_packet'.record.records[2].type = "FileCLS"
    /\ mapper_packet'.record.records[2].fileid = mapper_packet'.record.records[1].fileid

\* one FstatWindow [Open, Close], both with the inline LFN, the Close
\* holding the access entry of the Open
OpenCloseEmitted(out, record) ==
    /\ Len(out) = 1
    /\ out[1].event = "FstatWindow"
    /\ EventsOf(out[1].records) = <<"fstat.Open", "fstat.Close">>
    /\ out[1].records[1].lfn = record.lfn
    /\ out[1].records[2].lfn = record.lfn
    /\ out[1].records[2].client = out[1].records[1].client

\* C16 as claimed: FileTOD + FileOPN(hasLFN) + FileCLS of one file id emits
\* one FstatWindow [Open, Close] whenever the server resolves.
OpenCloseAlwaysEmitted ==
    [][OpenCloseStep => OpenCloseEmitted(mapper_out', mapper_packet'.record.records[1])]_vars

\* C16 as amended: it does when the inline user dictid of the FileOPN is 0
\* or names a user of the store.
OpenCloseEmittedForResolvableUser ==
    [][(/\ OpenCloseStep
        /\ \/ mapper_packet'.record.records[1].user <= 0
           \/ HasUser(mapper_packet'.header.stod, mapper_packet'.record.records[1].user))
       => OpenCloseEmitted(mapper_out', mapper_packet'.record.records[1])]_vars

\* an inline open of a known user and its close were emitted in one window
OpenCloseOfKnownUser ==
    /\ mapper_packet.code = "fstat"
    /\ Len(mapper_packet.record.records) = 2
    /\ mapper_packet.record.records[1].type = "FileOPN"
    /\ mapper_packet.record.records[1].hasLFN
    /\ mapper_packet.record.records[1].user > 0
    /\ mapper_packet.record.records[2].type = "FileCLS"
    /\ OpenCloseEmitted(mapper_out, mapper_packet.record.records[1])
    /\ mapper_out[1].records[1].client.client /= None

\* C17: a trace ReadWrite record with buflen = -N, N > 0, becomes an event
\* with write = N and read = 0; one with buflen = +N an event with read = N
\* and write = 0.  Stated of the packets Window, ReadWrite, Window.
ReadWriteSplitBySign ==
    (/\ mapper_packet.code = "trace"
     /\ Len(mapper_packet.record.records) = 3
     /\ mapper_packet.record.records[2].type = "ReadWrite"
     /\ mapper_out /= <<>>)
    => LET buflen == mapper_packet.record.records[2].buflen
           event == mapper_out[1].records[1]
       IN  /\ buflen < 0 => (event.write = 0 - buflen /\ event.read = 0)
           /\ buflen > 0 => (event.read = buflen /\ event.write = 0)

\* the step hands a Buff packet whose server resolves to the mapper
TraceStep ==
    /\ mapper_count' = mapper_count + 1
    /\ mapper_packet'.code = "trace"
    /\ NamedServer(mapper_packet') \in DOMAIN server_info

\* the event a trace record stands for
TraceEventOf(type) ==
    CASE type = "Open" -> "trace.Open"
      [] type = "ReadWrite" -> "trace.ReadWrite"
      [] type = "Close" -> "trace.Close"
      [] type = "Disc" -> "trace.Disconnect"

\* a trace record survives: it is of a converted kind and its lookup succeeds
TraceSurvives(record, users, files) ==
    CASE record.type \in {"Open", "ReadWrite", "Close"} -> record.dictid \in files
      [] record.type = "Disc" -> record.dictid \in users
      [] OTHER -> FALSE

\* start, end, server and the events of a window
WindowSummary(server, start, end, events) ==
    [server_info |-> server, start |-> start, end |-> end, events |-> events]

WindowsOf(out) ==
    [i \in 1 .. Len(out) |->
        WindowSummary(out[i].server_info, out[i].start, out[i].end, EventsOf(out[i].records))]

\* one window for each run of records with a survivor, from the start of the
\* mark before the run to the end of the mark after it
RECURSIVE ExpectedTraceWindows(_, _, _, _, _)
ExpectedTraceWindows(marks, groups, server, users, files) ==
    IF groups = <<>> THEN <<>>
    ELSE LET kept == SelectSeq(Head(groups), LAMBDA r : TraceSurvives(r, users, files))
             events == [i \in 1 .. Len(kept) |-> TraceEventOf(kept[i].type)]
         IN  (IF kept = <<>> THEN <<>>
              ELSE <<WindowSummary(server, marks[1].start, marks[2].end, events)>>)
             \o ExpectedTraceWindows(Tail(marks), Tail(groups), server, users, files)

\* C18: a Buff packet W0, g1, W1, g2, W2, ... whose server resolves emits,
\* in packet order, one TraceWindow for each gi with a surviving record, with
\* start = W(i-1).start, end = Wi.end, the server of W0.sid and the converted
\* surviving records of gi in packet order.
TraceWindowsFollowMarks ==
    [][TraceStep =>
          LET buff_struct == mapper_packet'.record
              stod == mapper_packet'.header.stod
          IN  WindowsOf(mapper_out') =
                 ExpectedTraceWindows(buff_struct.marks, buff_struct.groups,
                                      server_info[NamedServer(mapper_packet')],
                                      KnownIds(user_info, stod), KnownIds(access_info, stod))]_vars

\* the step hands a Burr packet whose server resolves to the mapper
RedirStep ==
    /\ mapper_count' = mapper_count + 1
    /\ mapper_packet'.code = "redir"
    /\ HasServer(mapper_packet'.header.stod, mapper_packet'.record.sid.sid)

\* the event a redirect stands for
RedirEventOf(type) ==
    CASE type = "REDIRECT" -> "CmsdRedir"
      [] type = "REDLOCAL" -> "XrootdRedir"

\* one window for each run of redirects with a survivor, from the timestamp
\* of the mark before the run, prev_duration of the mark after it long
RECURSIVE ExpectedRedirWindows(_, _, _, _)
ExpectedRedirWindows(marks, groups, server, users) ==
    IF groups = <<>> THEN <<>>
    ELSE LET kept == SelectSeq(Head(groups), LAMBDA r : r.dictid \in users)
             events == [i \in 1 .. Len(kept) |-> RedirEventOf(kept[i].type)]
         IN  (IF kept = <<>> THEN <<>>
              ELSE <<WindowSummary(server, marks[1].timestamp,
                                   marks[1].timestamp + marks[2].prev_duration, events)>>)
             \o ExpectedRedirWindows(Tail(marks), Tail(groups), server, users)

\* C19: for a Burr packet whose server resolves, the redirects between two
\* WindowMarks are emitted as one RedirWindow with start = the timestamp of
\* the opening mark and end = that timestamp + prev_duration of the closing
\* mark; a redirect whose get_user fails is dropped alone, the others are
\* kept in packet order.
RedirWindowsFollowMarks ==
    [][RedirStep =>
          LET burr_struct == mapper_packet'.record
              stod == mapper_packet'.header.stod
          IN  /\ mapper_raised' = "none"
              /\ WindowsOf(mapper_out') =
                    ExpectedRedirWindows(burr_struct.marks, burr_struct.groups,
                                         server_info[<<stod, burr_struct.sid.sid>>],
                                         KnownIds(user_info, stod))]_vars

\* of two redirects between the marks at 100 and of prev_duration 60, one was
\* dropped and the other emitted in RedirWindow(100, 160)
RedirectDroppedAlone ==
    /\ mapper_packet.code = "redir"
    /\ Len(mapper_packet.record.groups) = 1
    /\ Len(mapper_packet.record.groups[1]) = 2
    /\ Len(mapper_out) = 1
    /\ mapper_out[1].event = "RedirWindow"
    /\ mapper_out[1].start = 100
    /\ mapper_out[1].end = 160
    /\ Len(mapper_out[1].records) = 1

\* C20: every FstatWindow, TraceWindow and RedirWindow the mapper emits has
\* start <= end.
WindowStartsBeforeEnd ==
    mapper_packet.code \in {"fstat", "trace", "redir"} =>
        \A i \in 1 .. Len(mapper_out) : mapper_out[i].start <= mapper_out[i].end

\* the step hands the mapper a Map packet of the given payload type
MapStep(payload_type) ==
    /\ mapper_count' = mapper_count + 1
    /\ mapper_packet'.code = "map"
    /\ mapper_packet'.record.payload_type = payload_type

\* the step hands the mapper a Path packet right after the SrvInfo packet of
\* the server its userid names
PathAfterServerStep ==
    /\ mapper_packet.code = "map"
    /\ mapper_packet.record.payload_type = "SrvInfo"
    /\ MapStep("Path")
    /\ mapper_packet'.header.stod = mapper_packet.header.stod
    /\ mapper_packet'.record.userid.sid = mapper_packet.record.userid.sid

\* C21: a SrvInfo packet for (stod, sid) followed by a Path packet of the
\* same stod with dictid d and userid.sid = sid makes the mapper emit two
\* identity objects, the ServerInfo and then the PathAccessInfo; afterwards
\* get_server(stod, sid) returns that ServerInfo and get_access(stod, d) the
\* PathAccessInfo, which refers to that ServerInfo and holds the path of the
\* payload unchanged.
ServerThenPathResolve ==
    [][PathAfterServerStep =>
          LET stod == mapper_packet.header.stod
              sid == mapper_packet.record.userid.sid
              d == mapper_packet'.record.dictid
          IN  /\ mapper_raised' = "none"
              /\ Len(mapper_out) = 1 /\ Len(mapper_out') = 1
              /\ mapper_out[1] = ServerInfo(mapper_packet.record.userid,
                                            mapper_packet.record.payload, stod)
              /\ <<stod, sid>> \in DOMAIN server_info'
              /\ server_info'[<<stod, sid>>] = mapper_out[1]
              /\ <<stod, d>> \in DOMAIN access_info'
              /\ access_info'[<<stod, d>>] = mapper_out'[1]
              /\ mapper_out'[1].server = mapper_out[1]
              /\ mapper_out'[1].path = mapper_packet'.record.payload.path]_vars

\* the second packet of a run was a Path packet, and the store resolves its
\* dictid to an access info of the server the first packet installed
PathResolvedAfterServer ==
    /\ mapper_count = 2
    /\ mapper_packet.code = "map"
    /\ mapper_packet.record.payload_type = "Path"
    /\ Len(mapper_out) = 1
    /\ HasAccess(mapper_packet.header.stod, mapper_packet.record.dictid)
    /\ access_info[<<mapper_packet.header.stod, mapper_packet.record.dictid>>].path = "/lfn"
    /\ access_info[<<mapper_packet.header.stod, mapper_packet.record.dictid>>].server
          = server_info[<<mapper_packet.header.stod, mapper_packet.record.userid.sid>>]

\* C22: an AuthInfo or Path map record whose (stod, userid.sid) names no
\* server of the store emits nothing, raises no error, and leaves the server,
\* user and access tables as they were.
UnresolvedMapRecordDropped ==
    [][((MapStep("AuthInfo") \/ MapStep("Path"))
         /\ ~HasServer(mapper_packet'.header.stod, mapper_packet'.record.userid.sid))
       => /\ mapper_out' = <<>>
          /\ mapper_raised' = "none"
          /\ UNCHANGED <<server_info, user_info, access_info>>]_vars

\* an AuthInfo or Path record was dropped by a store that knows another
\* server, but not the one the record names
MapRecordOfUnknownServerDropped ==
    /\ mapper_packet.code = "map"
    /\ mapper_packet.record.payload_type \in {"AuthInfo", "Path"}
    /\ ~HasServer(mapper_packet.header.stod, mapper_packet.record.userid.sid)
    /\ DOMAIN server_info /= {}
    /\ mapper_out = <<>>
    /\ mapper_raised = "none"

\* C23: digesting a Map record with an AppInfo, PrgInfo or XfrInfo payload
\* leaves the server, user and access tables and the deletion queue as they
\* were.
OtherPayloadLeavesStore ==
    [][(\E payload_type \in {"AppInfo", "PrgInfo", "XfrInfo"} : MapStep(payload_type))
       => UNCHANGED <<server_info, user_info, access_info, deletion_queue>>]_vars

\* an AppInfo, PrgInfo or XfrInfo record was handed to a store that holds a
\* server and an access entry under the dictid of the record
OtherPayloadMetFilledStore ==
    /\ mapper_packet.code = "map"
    /\ mapper_packet.record.payload_type \in {"AppInfo", "PrgInfo", "XfrInfo"}
    /\ DOMAIN server_info /= {}
    /\ HasAccess(mapper_packet.header.stod, mapper_packet.record.dictid)
    /\ access_info[<<mapper_packet.header.stod, mapper_packet.record.dictid>>].path = "/lfn"

\* C28: a Buff packet with one or more records after its last Window is
\* rejected with an error, whatever the type of these records and whether
\* their store lookups succeed or not.  Stated of the packets whose server
\* resolves.
DanglingRecordsRejected ==
    [][(/\ TraceStep
        /\ LET records == mapper_packet'.record.records
           IN  records[Len(records)].type /= "Window")
       => mapper_raised' /= "none"]_vars

-----------------------------------------------------------------------------
(* Properties of packet_from_buffer, checked under SpecReader *)

\* plen as the header starting a buffer declares it
DeclaredPlen(data) == data[3] * 256 + data[4]

\* a call of packet_from_buffer is made
ReadStep == reader_count' = reader_count + 1

\* the source answers a read of the call about to be made with fewer bytes
\* than asked for: the header is incomplete, or the rest of the packet is
ShortRead ==
    LET left == Len(byte_source) - byte_pos
    IN  \/ left < HeaderSize
        \/ left < DeclaredPlen(SubSeq(byte_source, byte_pos + 1, Len(byte_source)))

\* C24: whenever the source returns fewer bytes than requested, for the
\* header or for the plen - 8 bytes after it, packet_from_buffer raises
\* PacketBufferExhausted and nothing else.
ShortReadRaisesExhausted ==
    [][(ReadStep /\ ShortRead) => reader_result' = Raised("PacketBufferExhausted")]_vars

\* bytes of the first k packets written to the source
RECURSIVE WrittenLength(_)
WrittenLength(k) ==
    IF k = 0 THEN 0 ELSE WrittenLength(k - 1) + DeclaredPlen(byte_written[k])

\* C25: when the k-th call returns a packet that the source holds whole, the
\* call has consumed exactly plen bytes, the position of the source is the
\* sum of the plen of the first k packets, the packet has size = plen, and it
\* is the k-th packet written, read from its own first byte.
ReaderFramingExact ==
    (/\ reader_result.kind = "packet"
     /\ reader_count <= Len(byte_written)
     /\ WrittenLength(reader_count) <= Len(byte_source))
    => LET written == byte_written[reader_count]
       IN  /\ byte_pos = WrittenLength(reader_count)
           /\ reader_result.size = DeclaredPlen(written)
           /\ reader_result.header.plen = DeclaredPlen(written)
           /\ reader_result.header.pseq = written[2]
           /\ Len(reader_result.record.records) * TRACE_SIZE + HeaderSize = Len(written)

\* two packets of different plen were read off a source that held both whole
TwoPacketsReadWhole ==
    /\ reader_count = 2
    /\ reader_result.kind = "packet"
    /\ Len(byte_written) = 2
    /\ Len(byte_written[1]) > Len(byte_written[2])
    /\ byte_pos = Len(byte_source)
    /\ byte_pos = Len(byte_written[1]) + Len(byte_written[2])

-----------------------------------------------------------------------------
(* Properties of Fstat.from_record and Burr.from_record, checked under     *)
(* SpecRecords                                                              *)

\* the mark the first record of a body must have: that of a FileTOD in a
\* f stream body, that of a ServerIdent in a r stream body
RequiredMark(code) == IF code = "f" THEN 2 ELSE "REDSID"

\* the body is well formed after its first record: every mark is that of a
\* record type and, in a r stream body, a WindowMark follows the first
\* record and another or the same ends the body
WellFormedRest(body) ==
    IF body.code = "f"
    THEN \A i \in 1 .. Len(body.records) : body.records[i].mark \in 0 .. 4
    ELSE /\ \A i \in 1 .. Len(body.records) :
              body.records[i].mark \in {"REDSID", "REDTIME", "REDIRECT", "REDLOCAL"}
         /\ Len(body.records) >= 2
         /\ body.records[2].mark = "REDTIME"
         /\ body.records[Len(body.records)].mark = "REDTIME"

-----------------------------------------------------------------------------
(* Further properties of stream_packets, checked under SpecStream *)

\* a step of the generator that yields a packet
Delivery == Len(emitted') = Len(emitted) + 1

\* the number of packets the buffer held when the packet of this delivery
\* was popped from it
HeldAtSelection == Len(buffer') + 1

\* C31: the reorder buffer never holds more than sort_window packets; each
\* time a packet is selected for emission before the source is exhausted
\* (in the sorting loop) the buffer holds exactly sort_window packets, and
\* each such delivery after the first has admitted exactly one new packet
\* from the source.
BufferHoldsWindow ==
    [][/\ Len(buffer') <= (IF sort_window > 0 THEN sort_window ELSE 0)
       /\ Delivery => HeldAtSelection <= sort_window
       /\ (Delivery /\ gen_pc' = "yielded") => HeldAtSelection = sort_window
       /\ (Delivery /\ gen_pc = "yielded" /\ gen_pc' = "yielded") => read_pos' = read_pos + 1
       /\ (Delivery /\ gen_pc' /= "yielded") => read_pos' = read_pos]_vars

\* the sorting loop has delivered twice from a full buffer of more than one
\* packet, and the source is not exhausted
SteadyDelivery ==
    /\ gen_pc = "yielded"
    /\ sort_window >= 2
    /\ Len(emitted) >= 2
    /\ Len(buffer) + 1 = sort_window
    /\ ~SourceExhausted(read_pos)

-----------------------------------------------------------------------------
(* Further properties of MapInfoStore and the digesters, checked under     *)
(* SpecMapper                                                              *)

\* the step hands the mapper a Fstat packet, server resolving, that holds
\* one FileOPN with inline user and LFN: Open.from_record calls
\* set_access(server, fileid, user, lfn)
SetAccessStep ==
    /\ FstatStep
    /\ Len(mapper_packet'.record.records) = 1
    /\ mapper_packet'.record.records[1].type = "FileOPN"
    /\ mapper_packet'.record.records[1].hasLFN

\* C32: set_access(server, dictid, userid, path) installs at
\* (server.stod, dictid) an access entry with that server and path, replacing
\* any earlier entry; for userid > 0 its client and auth are those of the
\* UserInfo at (server.stod, userid), and when that user is absent the call
\* raises MapInfoError and installs nothing; for userid = 0 client and auth
\* are null.  After a successful call get_access(server.stod, dictid)
\* returns the installed entry.
SetAccessInstalls ==
    [][SetAccessStep =>
          LET record == mapper_packet'.record.records[1]
              stod == mapper_packet'.header.stod
              server == server_info[NamedServer(mapper_packet')]
              call == set_access(TheStore, server, record.fileid, record.user, record.lfn)
              user == user_info[<<stod, record.user>>]
              entry == access_info'[<<stod, record.fileid>>]
          IN  IF record.user > 0 /\ ~HasUser(stod, record.user)
              THEN /\ ~call.ok
                   /\ access_info' = access_info
                   /\ mapper_out' = <<>>
              ELSE /\ call.ok
                   /\ DOMAIN access_info' = DOMAIN access_info \cup {<<stod, record.fileid>>}
                   /\ \A key \in DOMAIN access_info \ {<<stod, record.fileid>>} :
                          access_info'[key] = access_info[key]
                   /\ entry.server = server
                   /\ entry.path = record.lfn
                   /\ entry.client = (IF record.user > 0 THEN user.client ELSE None)
                   /\ entry.auth = (IF record.user > 0 THEN user.auth_info ELSE None)
                   /\ call.value = entry
                   /\ get_access(call.st, stod, record.fileid) = Return(entry, call.st)
                   /\ mapper_out'[1].records[1].client = entry]_vars

\* an inline open of a known user has installed an access entry that holds
\* the client and the auth info of that user
SetAccessInheritedUser ==
    /\ mapper_packet.code = "fstat"
    /\ Len(mapper_packet.record.records) = 1
    /\ mapper_packet.record.records[1].type = "FileOPN"
    /\ mapper_packet.record.records[1].hasLFN
    /\ mapper_packet.record.records[1].user > 0
    /\ mapper_out /= <<>>
    /\ LET stod == mapper_packet.header.stod
           key == <<stod, mapper_packet.record.records[1].fileid>>
           user == <<stod, mapper_packet.record.records[1].user>>
       IN  /\ key \in DOMAIN access_info
           /\ user \in DOMAIN user_info
           /\ access_info[key].path = mapper_packet.record.records[1].lfn
           /\ access_info[key].client = user_info[user].client
           /\ access_info[key].auth = user_info[user].auth_info
           /\ access_info[key].auth /= None

\* the step hands the mapper a packet, server resolving, that holds one
\* record, and this record is one that frees an id: a Fstat packet with a
\* FileDSC, FileCLS or FileXFR, or a Buff packet Window, Disc or Close, Window
FreeingStep ==
    /\ mapper_count' = mapper_count + 1
    /\ mapper_packet'.code \in {"fstat", "trace"}
    /\ NamedServer(mapper_packet') \in DOMAIN server_info
    /\ IF mapper_packet'.code = "fstat"
       THEN /\ Len(mapper_packet'.record.records) = 1
            /\ mapper_packet'.record.records[1].type \in {"FileDSC", "FileCLS", "FileXFR"}
       ELSE /\ Len(mapper_packet'.record.records) = 3
            /\ mapper_packet'.record.records[2].type \in {"Disc", "Close"}
            /\ mapper_packet'.record.records[3].type = "Window"

\* the freeing record of such a packet
FreeingRecord(value) ==
    IF value.code = "fstat" THEN value.record.records[1] ELSE value.record.records[2]

\* the table and the key the record refers to
FreeingTable(record) == IF record.type \in {"FileDSC", "Disc"} THEN "user" ELSE "access"
FreeingKey(stod, record) ==
    <<stod, IF record.type \in {"FileCLS", "FileXFR"} THEN record.fileid ELSE record.dictid>>

\* C36: a deletion is enqueued only after a successful lookup.  When the id
\* of a fstat FileDSC/FileCLS/FileXFR or of a trace Disc/Close does not
\* resolve, the record is dropped and the deletion queue is unchanged; when
\* it resolves, exactly one deletion for that (stod, id) is enqueued and the
\* event carries the entry found.
DeletionFollowsLookup ==
    [][FreeingStep =>
          LET record == FreeingRecord(mapper_packet')
              key == FreeingKey(mapper_packet'.header.stod, record)
              table == IF FreeingTable(record) = "user" THEN user_info ELSE access_info
          IN  IF key \notin DOMAIN table
              THEN /\ mapper_out' = <<>>
                   /\ deletion_queue' = deletion_queue
              ELSE /\ Len(deletion_queue') = Len(deletion_queue) + 1
                   /\ SubSeq(deletion_queue', 1, Len(deletion_queue)) = deletion_queue
                   /\ deletion_queue'[Len(deletion_queue')].table = FreeingTable(record)
                   /\ deletion_queue'[Len(deletion_queue')].key = key
                   /\ Len(mapper_out') = 1
                   /\ Len(mapper_out'[1].records) = 1
                   /\ mapper_out'[1].records[1].client = table[key]]_vars

\* a trace Close of a file id with an access entry was emitted with that
\* entry, and its deletion is the one deletion in the queue
ResolvedCloseEnqueuedOne ==
    /\ mapper_packet.code = "trace"
    /\ Len(mapper_packet.record.records) = 3
    /\ mapper_packet.record.records[2].type = "Close"
    /\ HasAccess(mapper_packet.header.stod, mapper_packet.record.records[2].dictid)
    /\ Len(mapper_out) = 1
    /\ mapper_out[1].records[1].client =
          access_info[<<mapper_packet.header.stod, mapper_packet.record.records[2].dictid>>]
    /\ Len(deletion_queue) = 1
    /\ deletion_queue[1].table = "access"
    /\ deletion_queue[1].key =
          <<mapper_packet.header.stod, mapper_packet.record.records[2].dictid>>

\* the step hands the mapper a Burr packet, a Plugin packet, or a Buff
\* packet that holds Window, Open and ReadWrite records only
ReadOnlyStep ==
    /\ mapper_count' = mapper_count + 1
    /\ \/ mapper_packet'.code \in {"redir", "plugin"}
       \/ /\ mapper_packet'.code = "trace"
          /\ \A i \in 1 .. Len(mapper_packet'.record.records) :
                mapper_packet'.record.records[i].type \in {"Window", "Open", "ReadWrite"}

\* C37: digesting a Burr packet, a trace Open or ReadWrite record, or a
\* Plugin packet leaves the server, user and access tables and the deletion
\* queue as they were, whether or not the lookups succeed.
ReadOnlyDigestersKeepStore ==
    [][ReadOnlyStep =>
          UNCHANGED <<server_info, user_info, access_info, server_lifetime,
                      deletion_queue, swapped_queue>>]_vars

\* a trace ReadWrite of a file id with an access entry was emitted, and the
\* entry is in the table and no deletion in the queue
ReadWriteEmittedStoreKept ==
    /\ mapper_packet.code = "trace"
    /\ Len(mapper_packet.record.records) = 3
    /\ mapper_packet.record.records[2].type = "ReadWrite"
    /\ HasAccess(mapper_packet.header.stod, mapper_packet.record.records[2].dictid)
    /\ Len(mapper_out) = 1
    /\ mapper_out[1].records[1].event = "trace.ReadWrite"
    /\ deletion_queue = <<>>

\* C38: StreamMapper processes a decoded Map packet of every payload type
\* without raising an error to its caller; for an AppInfo, PrgInfo or XfrInfo
\* payload it emits no identity object.
MapPacketsNeverRaise ==
    mapper_packet.code = "map" =>
        /\ mapper_raised = "none"
        /\ mapper_packet.record.payload_type \in {"AppInfo", "PrgInfo", "XfrInfo"}
              => mapper_out = <<>>

\* C39: a Buff packet that starts and ends with a Window and holds an AppId
\* record between two Windows is digested without error: the AppId does not
\* abort the packet, and the TraceWindows of the other records are emitted.
AppIdDigestedWithoutError ==
    [][(/\ TraceStep
        /\ mapper_packet'.record.records[Len(mapper_packet'.record.records)].type = "Window"
        /\ \E i \in 1 .. Len(mapper_packet'.record.records) :
              mapper_packet'.record.records[i].type = "AppId")
       => LET buff_struct == mapper_packet'.record
              stod == mapper_packet'.header.stod
          IN  /\ mapper_raised' = "none"
              /\ WindowsOf(mapper_out') =
                    ExpectedTraceWindows(buff_struct.marks, buff_struct.groups,
                                         server_info[NamedServer(mapper_packet')],
                                         KnownIds(user_info, stod),
                                         KnownIds(access_info, stod))]_vars

-----------------------------------------------------------------------------
(* Properties of UserId.from_buffer, checked under SpecUserId *)

\* the fields of a UserId joined with the separators
Rejoined(user_id) ==
    UserIdBytes(user_id.prot, user_id.user, user_id.pid, user_id.sid, user_id.host)

\* C33: UserId.from_buffer of a byte string prot/user.pid:sid@host returns
\* fields which, joined with the separators, reproduce the input, for every
\* user name and host, user names containing '.' included.
UserIdRoundTrip ==
    userid_result /= NoResult =>
        /\ userid_result.kind = "UserId"
        /\ Rejoined(userid_result) = userid_buffer

-----------------------------------------------------------------------------
(* Properties of the decoding loop of Fstat.from_record, checked under     *)
(* SpecFstatBody                                                           *)

\* C40: Fstat.from_record terminates on every finite record body: each
\* decoded record advances the read position by a strictly positive number
\* of bytes and never past the end of the body, whatever rec_size a FileOPN
\* or FileCLS record declares.
DecodingAdvances ==
    [][Len(body_records') > Len(body_records) =>
          /\ body_pos' > body_pos
          /\ body_pos' <= Len(body_bytes)]_vars

====
